---- MODULE Spec2Model ----
(***************************************************************************)
(* PantryPal mobile client: the session / authentication lifecycle.        *)
(*                                                                         *)
(*   - AsyncStorage and SecureStore (the credential store),                *)
(*   - services/api.js (the API client factory: getApi, resetApiInstance,  *)
(*     the 401 response interceptor, request),                             *)
(*   - services/biometricAuth.js (the biometric gate),                     *)
(*   - App.js (checkAuthentication, handleLoginSuccess, handleLogout),     *)
(*   - the Landing, Login, Signup and Settings screens' handlers.          *)
(*                                                                         *)
(* JavaScript runs one callback at a time; an async function gives up the  *)
(* processor at every await.  Each action below is one such uninterrupted  *)
(* piece of a handler: it starts where an awaited call returns and runs to *)
(* the next awaited call.  An awaited storage read yields the value that   *)
(* is stored when the handler resumes; an awaited storage write takes      *)
(* effect when it is called.  A network call is answered by the            *)
(* environment with any outcome (a status, a malformed body, a failure or  *)
(* a timeout).                                                             *)
(***************************************************************************)
EXTENDS Integers, Sequences, FiniteSets, TLC

\* ------------------------------------------------------------------ values

\* JavaScript null where a text is expected (an absent key, no token, no user).
\* Texts are sequences of characters, and no text holds the character "null".
Null == <<"null">>

\* JavaScript null where an object is expected (no instance, no credentials).
NullObject == [ isNull |-> TRUE ]

\* JavaScript undefined where a text is expected.
Undefined == <<"undefined">>

\* What a call rejects with when it reads a const before its declaration.
ReferenceError == [ threw |-> "ReferenceError" ]

\* The request tasks (a screen calling api.get, api.post, ...).  The app's
\* screens have one request in flight at a time.
Tasks == {"r1", "r2"}
ScreenTasks == {"r1"}

\* Texts are sequences of characters.  "h" abbreviates the five characters
\* "http:" and "s" the six characters "https:", so that "http://" is h,/,/.
HttpPrefix == <<"h", "/", "/">>
HttpsPrefix == <<"s", "/", "/">>

\* What the user may type into the Landing screen's server URL field.
LandingUrlInputs ==
  { <<>>, <<" ">>, <<"a">>, <<"h", "/", "/">>,
    <<"h", "/", "/", "a", "/", "/">>, <<" ", "s", "/", "/", "b", " ">> }

\* What the Settings screen's connection form may hold when Save is pressed.
SettingsUrlInputs == { <<" ">>, <<"h", "/", "/", "a">>, <<"s", "/", "/", "b">> }
SettingsKeyInputs == { <<>>, <<"k">> }

\* Arguments of api.setApiKey.
SetApiKeyInputs == { Null, <<" ">>, <<" ", "k", " ">> }

\* The sessions the server may open: session i has token TokenNames[i] and
\* belongs to user UserNames[i].
NumSessions == 2
TokenNames == <<"t1", "t2", "t3">>
UserNames == <<"alice", "bob", "carol">>
Tokens == { <<TokenNames[i]>> : i \in 1..NumSessions }
Users == { <<UserNames[i]>> : i \in 1..NumSessions }
LoginBodies ==
  { [session_token |-> <<TokenNames[i]>>, user |-> <<UserNames[i]>>] :
      i \in 1..NumSessions }

\* Username / password pairs typed into the Login and Signup forms.
CredentialInputs == { [username |-> <<"alice">>, password |-> <<"pw">>] }

\* ------------------------------------------------------------ text helpers

\* String.prototype.trim
RECURSIVE TrimLeft(_)
TrimLeft(s) == IF s # <<>> /\ Head(s) = " " THEN TrimLeft(Tail(s)) ELSE s

RECURSIVE TrimRight(_)
TrimRight(s) ==
  IF s # <<>> /\ s[Len(s)] = " " THEN TrimRight(SubSeq(s, 1, Len(s) - 1)) ELSE s

Trim(s) == TrimRight(TrimLeft(s))

\* s.replace(/\/+$/, '')
RECURSIVE StripTrailingSlashes(_)
StripTrailingSlashes(s) ==
  IF s # <<>> /\ s[Len(s)] = "/"
  THEN StripTrailingSlashes(SubSeq(s, 1, Len(s) - 1))
  ELSE s

\* String.prototype.startsWith
StartsWith(s, p) == Len(s) >= Len(p) /\ SubSeq(s, 1, Len(p)) = p

\* JavaScript truthiness of a string-or-null value.
Truthy(v) == v # Null /\ v # <<>>

\* ------------------------------------------------------------------- state

VARIABLES
  AsyncStorage,         \* key -> stored value or Null
  SecureStore,          \* USER_CREDENTIALS: stored text or Null
  apiInstance,          \* api.js: the cached axios instance or Null
  currentSessionToken,  \* api.js: the token recorded for the cached instance
  isAuthenticated,      \* App state
  needsAuth,            \* App state
  checkingAuth,         \* App state
  currentUser,          \* App state
  req,                  \* the request tasks: position and local variables
  ca,                   \* checkAuthentication: position and local variables
  bio,                  \* performBiometricLogin: position and local variables
  ui,                   \* the screen handler that is running, if any
  enrollAlert,          \* the "Enable biometric?" alert: the pair it would save
  tdz,                  \* the build: TRUE when it enforces the temporal dead
                        \* zone of const (a native engine), FALSE when it
                        \* hoists the declaration as a var (Babel's transform)
  stored                \* history: for each task in the reads of a rebuild,
                        \* the triples stored since its first read

vars ==
  << AsyncStorage, SecureStore, apiInstance, currentSessionToken,
     isAuthenticated, needsAuth, checkingAuth, currentUser,
     req, ca, bio, ui, enrollAlert, tdz, stored >>

storageVars == << AsyncStorage, SecureStore >>
apiVars == << apiInstance, currentSessionToken >>
appVars == << isAuthenticated, needsAuth, checkingAuth, currentUser >>

\* AsyncStorage.setItem / removeItem: the store afterwards.
SetItem(key, value) == [AsyncStorage EXCEPT ![key] = value]
RemoveItem(key) == [AsyncStorage EXCEPT ![key] = Null]

\* The navigator shows the auth stack or the main stack (App render).
AuthStackShown == ~checkingAuth /\ ~isAuthenticated /\ needsAuth
MainStackShown == ~checkingAuth /\ ~(~isAuthenticated /\ needsAuth)

\* The stack is mounted once App has rendered it.
Mounted == ca.pc = "rendered"

\* The base URL, API key and session token stored at this moment.
StoredTriple ==
  [ baseURL |-> AsyncStorage["API_BASE_URL"],
    apiKey |-> AsyncStorage["API_KEY"],
    sessionToken |-> AsyncStorage["SESSION_TOKEN"] ]

\* The history is kept only in the specification of the rebuild.
Untracked == [ tracked |-> FALSE ]

\* The positions of getApi between its first read of a rebuild and the
\* creation of the instance.
Reading == {"getApi20", "getApi21"}

\* The history after a step: a task in the reads of a rebuild has seen the
\* triples stored from its first read on.
Observed ==
  IF stored = Untracked
  THEN Untracked
  ELSE [ t \in DOMAIN req |->
           IF req'[t].pc \in Reading
           THEN (IF req[t].pc \in Reading THEN stored[t] ELSE {})
                  \cup {StoredTriple'}
           ELSE {} ]

\* ---------------------------------------------------------------- api.js

\* `Bearer ${sessionToken}`
Bearer(token) == <<"Bearer ">> \o token

\* The headers object getApi builds from the key and token it read.
\* A variant that sends one credential only: the key wins over the token.
BuildHeadersEitherOr(apiKey, sessionToken) ==
  [ ContentType |-> "application/json",
    XApiKey |-> IF Truthy(apiKey) THEN apiKey ELSE Null,
    Authorization |-> IF Truthy(apiKey) \/ ~Truthy(sessionToken) THEN Null
                      ELSE Bearer(sessionToken) ]

BuildHeaders(apiKey, sessionToken) ==
  [ ContentType |-> "application/json",
    XApiKey |-> IF Truthy(apiKey) THEN apiKey ELSE Null,
    Authorization |-> IF Truthy(sessionToken) THEN Bearer(sessionToken) ELSE Null ]

\* axios.create({ baseURL, timeout, headers, withCredentials })
AxiosCreate(baseURL, headers) == [ baseURL |-> baseURL, headers |-> headers ]

\* getApi's test: rebuild when no instance is cached or the token changed.
NeedsRebuild(instance, recordedToken, sessionToken) ==
  instance = NullObject \/ recordedToken # sessionToken

\* config.getApiBaseUrl: the configured base URL (absent when none is stored).
GetApiBaseUrl == AsyncStorage["API_BASE_URL"]

\* The module-level state of api.js.
Module == [apiInstance |-> apiInstance, currentSessionToken |-> currentSessionToken]

\* What getApi() leaves in the module, and what it returns (an instance, or
\* the error it rejects with), when it runs to completion with nothing else
\* in between, from the module state m = [apiInstance, currentSessionToken].
GetApi(m) ==
  LET sessionToken == AsyncStorage["SESSION_TOKEN"]
      built == AxiosCreate(GetApiBaseUrl,
                           BuildHeaders(AsyncStorage["API_KEY"], sessionToken))
  IN  IF ~NeedsRebuild(m.apiInstance, m.currentSessionToken, sessionToken)
        THEN [apiInstance |-> m.apiInstance,
              currentSessionToken |-> m.currentSessionToken,
              returns |-> m.apiInstance]
      ELSE IF tdz
        THEN [apiInstance |-> m.apiInstance,
              currentSessionToken |-> m.currentSessionToken,
              returns |-> ReferenceError]
        ELSE [apiInstance |-> built, currentSessionToken |-> Undefined,
              returns |-> built]

IdleTask == [ pc |-> "idle", baseURL |-> Null, apiKey |-> Null,
              authorization |-> Null,
              status |-> "none", result |-> "none" ]

IdleBio == [ pc |-> "idle", op |-> "none", arg |-> NullObject,
             credentials |-> NullObject,
             prompts |-> 0, outcome |-> "none", failed |-> FALSE,
             threw |-> FALSE, returns |-> FALSE, result |-> NullObject ]

\* checkAuthentication before its first step; calls lists the platform and
\* network calls the run has made.
StartCa == [ pc |-> "start", baseURL |-> Null, sessionToken |-> Null,
             data |-> NullObject, probe |-> "none", me |-> "none",
             credentials |-> NullObject, login |-> "none", userData |-> Null,
             caught |-> "none",
             prompts |-> 0, calls |-> <<>>, atStart |-> NullObject ]

IdleUi == [ pc |-> "idle", handler |-> "none", screen |-> "none",
            baseURL |-> Null, key |-> Null, credentials |-> NullObject,
            data |-> NullObject, saved |-> FALSE, outcome |-> "none",
            calls |-> <<>> ]

Init ==
  /\ AsyncStorage =
       [ k \in {"API_BASE_URL", "API_KEY", "SESSION_TOKEN", "BIOMETRIC_ENABLED"}
           |-> Null ]
  /\ SecureStore = Null
  /\ apiInstance = NullObject
  /\ currentSessionToken = Null
  /\ isAuthenticated = FALSE
  /\ needsAuth = FALSE
  /\ checkingAuth = TRUE
  /\ currentUser = Null
  /\ req = [ t \in Tasks |-> IdleTask ]
  /\ ca = StartCa
  /\ bio = IdleBio
  /\ ui = IdleUi
  /\ enrollAlert = NullObject
  /\ tdz \in BOOLEAN
  /\ stored = Untracked

\* request(method, endpoint, data): getApi() is called, which awaits the read
\* of SESSION_TOKEN.
StartRequest(t) ==
  /\ Mounted
  /\ MainStackShown
  /\ req[t].pc = "idle"
  /\ req' = [req EXCEPT ![t] = [IdleTask EXCEPT !.pc = "getApi10"]]
  /\ UNCHANGED << storageVars, apiVars, appVars, ca, bio, ui, enrollAlert, tdz >>
  /\ stored' = Observed

\* getApi, resumed with the session token: either the cached instance is
\* returned and the request goes out, or the rebuild starts.  The rebuild's
\* first statement, currentSessionToken = sessionToken, reads the const
\* sessionToken that the same block declares four lines further down, not the
\* one just read: a build that enforces the temporal dead zone throws a
\* ReferenceError there, which rejects the request before anything is
\* assigned; a build that hoists the declaration reads undefined.
GetApiCheck(t) ==
  /\ req[t].pc = "getApi10"
  /\ LET sessionToken == AsyncStorage["SESSION_TOKEN"] IN
       IF ~NeedsRebuild(apiInstance, currentSessionToken, sessionToken)
       THEN /\ req' = [req EXCEPT
                         ![t].pc = "sent",
                         ![t].authorization = apiInstance.headers.Authorization]
            /\ UNCHANGED apiVars
       ELSE IF tdz
       THEN /\ req' = [req EXCEPT ![t].pc = "settled",
                                  ![t].status = "ReferenceError",
                                  ![t].result = "rejected"]
            /\ UNCHANGED apiVars
       ELSE /\ currentSessionToken' = Undefined
            /\ req' = [req EXCEPT ![t].pc = "getApi17"]
            /\ UNCHANGED apiInstance
  /\ UNCHANGED << storageVars, appVars, ca, bio, ui, enrollAlert, tdz >>
  /\ stored' = Observed

\* getApi, resumed with the base URL.
GetApiBaseUrlRead(t) ==
  /\ req[t].pc = "getApi17"
  /\ req' = [req EXCEPT ![t].pc = "getApi20", ![t].baseURL = GetApiBaseUrl]
  /\ UNCHANGED << storageVars, apiVars, appVars, ca, bio, ui, enrollAlert, tdz >>
  /\ stored' = Observed

\* getApi, resumed with the API key.
GetApiKeyRead(t) ==
  /\ req[t].pc = "getApi20"
  /\ req' = [req EXCEPT ![t].pc = "getApi21",
                        ![t].apiKey = AsyncStorage["API_KEY"]]
  /\ UNCHANGED << storageVars, apiVars, appVars, ca, bio, ui, enrollAlert, tdz >>
  /\ stored' = Observed

\* getApi, resumed with the session token read again: the instance is built
\* and cached, returned to request(), and the request goes out.
GetApiBuild(t) ==
  /\ req[t].pc = "getApi21"
  /\ apiInstance' =
       AxiosCreate(req[t].baseURL,
                   BuildHeaders(req[t].apiKey, AsyncStorage["SESSION_TOKEN"]))
  /\ req' = [req EXCEPT
               ![t].pc = "sent", ![t].baseURL = Null, ![t].apiKey = Null,
               ![t].authorization =
                 BuildHeaders(req[t].apiKey,
                              AsyncStorage["SESSION_TOKEN"]).Authorization]
  /\ UNCHANGED << storageVars, currentSessionToken, appVars, ca, bio, ui, enrollAlert, tdz >>
  /\ stored' = Observed

\* The statuses a response may carry; "network" is an error without response.
Statuses == {"200", "401", "500", "network"}

\* The response interceptor's test.
IsUnauthorized(status) == status = "401"

\* The response arrives.  A 2xx resolves the request.  An error runs the
\* interceptor's error handler: on 401 it starts clearing the credentials,
\* otherwise it rejects at once.
Response(t) ==
  /\ req[t].pc = "sent"
  /\ \E status \in Statuses :
       IF status = "200"
       THEN /\ req' = [req EXCEPT ![t].pc = "settled", ![t].status = status,
                                  ![t].result = "resolved"]
            /\ UNCHANGED AsyncStorage
       ELSE IF IsUnauthorized(status)
       THEN /\ AsyncStorage' = RemoveItem("API_KEY")
            /\ req' = [req EXCEPT ![t].pc = "interceptor50", ![t].status = status]
       ELSE /\ req' = [req EXCEPT ![t].pc = "settled", ![t].status = status,
                                  ![t].result = "rejected"]
            /\ UNCHANGED AsyncStorage
  /\ UNCHANGED << SecureStore, apiVars, appVars, ca, bio, ui, enrollAlert, tdz >>
  /\ stored' = Observed

\* Interceptor, after the removal of API_KEY: remove SESSION_TOKEN.
InterceptorRemoveToken(t) ==
  /\ req[t].pc = "interceptor50"
  /\ AsyncStorage' = RemoveItem("SESSION_TOKEN")
  /\ req' = [req EXCEPT ![t].pc = "interceptor51"]
  /\ UNCHANGED << SecureStore, apiVars, appVars, ca, bio, ui, enrollAlert, tdz >>
  /\ stored' = Observed

\* A variant that clears the instance and resolves instead of rejecting.
InterceptorSwallows(t) ==
  /\ req[t].pc = "interceptor51"
  /\ apiInstance' = NullObject
  /\ req' = [req EXCEPT ![t].pc = "settled", ![t].result = "resolved"]
  /\ UNCHANGED << storageVars, currentSessionToken, appVars, ca, bio, ui, enrollAlert, tdz >>
  /\ stored' = Observed

\* A variant that rejects but keeps the cached instance.
InterceptorRejectKeepsInstance(t) ==
  /\ req[t].pc = "interceptor51"
  /\ req' = [req EXCEPT ![t].pc = "settled", ![t].result = "rejected"]
  /\ UNCHANGED << storageVars, apiVars, appVars, ca, bio, ui, enrollAlert, tdz >>
  /\ stored' = Observed

\* Interceptor, after the removal of SESSION_TOKEN: drop the cached instance
\* and reject with the error.
InterceptorReject(t) ==
  /\ req[t].pc = "interceptor51"
  /\ apiInstance' = NullObject
  /\ req' = [req EXCEPT ![t].pc = "settled", ![t].result = "rejected"]
  /\ UNCHANGED << storageVars, currentSessionToken, appVars, ca, bio, ui, enrollAlert, tdz >>
  /\ stored' = Observed

\* The caller of request() has taken its result: the task is over.
RequestSettled(t) ==
  /\ req[t].pc = "settled"
  /\ req' = [req EXCEPT ![t] = IdleTask]
  /\ UNCHANGED << storageVars, apiVars, appVars, ca, bio, ui, enrollAlert, tdz >>
  /\ stored' = Observed

RequestStep(t) ==
  \/ GetApiCheck(t)
  \/ GetApiBaseUrlRead(t)
  \/ GetApiKeyRead(t)
  \/ GetApiBuild(t)
  \/ Response(t)
  \/ InterceptorRemoveToken(t)
  \/ InterceptorReject(t)
  \/ RequestSettled(t)

\* --------------------------------------------------------- biometricAuth.js

BiometricTrue == <<"true">>
BiometricFalse == <<"false">>

\* JSON.stringify of a string, between its quotes: a quote and a backslash
\* are written with a backslash in front.
RECURSIVE Escape(_)
Escape(s) ==
  IF s = <<>> THEN <<>>
  ELSE (IF Head(s) \in {"\"", "\\"} THEN <<"\\", Head(s)>> ELSE <<Head(s)>>)
         \o Escape(Tail(s))

\* A variant that writes the strings as they are.
JsonStringifyUnescaped(credentials) ==
  <<"{", "\"">> \o credentials.username \o <<"\"", ",", "\"">>
    \o credentials.password \o <<"\"", "}">>

\* JSON.stringify({ username, password }); the two keys are left out of the
\* text.
JsonStringify(credentials) ==
  <<"{", "\"">> \o Escape(credentials.username) \o <<"\"", ",", "\"">>
    \o Escape(credentials.password) \o <<"\"", "}">>

\* JSON.parse of a string from place i, just after its opening quote, with
\* value read so far: the string and the place after its closing quote.
RECURSIVE ReadString(_, _, _)
ReadString(text, i, value) ==
  IF i > Len(text) THEN [ok |-> FALSE, value |-> value, next |-> i]
  ELSE IF text[i] = "\"" THEN [ok |-> TRUE, value |-> value, next |-> i + 1]
  ELSE IF text[i] = "\\"
  THEN (IF i + 1 > Len(text)
        THEN [ok |-> FALSE, value |-> value, next |-> i]
        ELSE ReadString(text, i + 2, Append(value, text[i + 1])))
  ELSE ReadString(text, i + 1, Append(value, text[i]))

\* What JSON.parse throws on a text that is not JSON.
SyntaxError == [ threw |-> "SyntaxError" ]

\* JSON.parse of a stored text: the { username, password } object.
JsonParse(text) ==
  IF Len(text) < 2 \/ text[1] # "{" \/ text[2] # "\"" THEN SyntaxError
  ELSE LET username == ReadString(text, 3, <<>>) IN
    IF ~username.ok \/ username.next + 1 > Len(text)
         \/ text[username.next] # "," \/ text[username.next + 1] # "\""
    THEN SyntaxError
    ELSE LET password == ReadString(text, username.next + 2, <<>>) IN
      IF ~password.ok \/ password.next # Len(text) \/ text[password.next] # "}"
      THEN SyntaxError
      ELSE [ username |-> username.value, password |-> password.value ]

\* Whether JSON.parse accepts the text.
JsonWellFormed(text) == JsonParse(text) # SyntaxError

\* isBiometricEnabled: the flag read is 'true'; false when the read throws.
IsBiometricEnabled(readOk) ==
  readOk /\ AsyncStorage["BIOMETRIC_ENABLED"] = BiometricTrue

\* getSavedCredentials: the parsed pair; null when nothing is stored, when the
\* read throws or when the stored text does not parse.
GetSavedCredentials(readOk) ==
  IF readOk /\ Truthy(SecureStore) /\ JsonWellFormed(SecureStore)
  THEN JsonParse(SecureStore)
  ELSE NullObject

\* What performBiometricLogin returns.
BiometricResult(success, credentials) ==
  [ success |-> success, credentials |-> credentials ]

BiometricFailure == BiometricResult(FALSE, NullObject)

\* performBiometricLogin is called: it awaits isBiometricEnabled().
CallPerformBiometricLogin ==
  [IdleBio EXCEPT !.pc = "pbl161", !.op = "performBiometricLogin"]

\* A variant that goes on to the saved credentials whatever the flag.
PblEnabledIgnoresFlag ==
  /\ bio.pc = "pbl161"
  /\ bio' = [bio EXCEPT !.pc = "pbl167"]
  /\ UNCHANGED << storageVars, apiVars, appVars, req, ca, ui, enrollAlert, tdz >>
  /\ stored' = Observed

\* performBiometricLogin, resumed with the enabled flag.
PblEnabled ==
  /\ bio.pc = "pbl161"
  /\ \E readOk \in BOOLEAN :
       IF ~IsBiometricEnabled(readOk)
       THEN bio' = [bio EXCEPT !.pc = "returned", !.result = BiometricFailure,
                               !.failed = ~readOk]
       ELSE bio' = [bio EXCEPT !.pc = "pbl167"]
  /\ UNCHANGED << storageVars, apiVars, appVars, req, ca, ui, enrollAlert, tdz >>
  /\ stored' = Observed

\* performBiometricLogin, resumed with the saved credentials: without a pair
\* it fails at once, with one it shows the platform prompt.
PblCredentials ==
  /\ bio.pc = "pbl167"
  /\ \E readOk \in BOOLEAN :
       LET credentials == GetSavedCredentials(readOk) IN
         IF credentials = NullObject
         THEN bio' = [bio EXCEPT !.pc = "returned", !.result = BiometricFailure,
                                 !.failed = ~readOk]
         ELSE bio' = [bio EXCEPT !.pc = "pbl173", !.credentials = credentials,
                                 !.prompts = 1]
  /\ UNCHANGED << storageVars, apiVars, appVars, req, ca, ui, enrollAlert, tdz >>
  /\ stored' = Observed

\* How the platform prompt may end; "error" is the platform call throwing.
PromptOutcomes == {"success", "cancel", "error"}

\* authenticateWithBiometrics: result.success, false when the call throws.
AuthenticateWithBiometrics(outcome) == outcome = "success"

\* A variant that takes the prompt's result object itself for the answer.
PblAuthenticatedIgnoresResult ==
  /\ bio.pc = "pbl173"
  /\ \E outcome \in PromptOutcomes :
       IF outcome = "error"
       THEN bio' = [bio EXCEPT !.pc = "returned", !.result = BiometricFailure,
                               !.outcome = outcome, !.failed = (outcome = "error"),
                               !.credentials = NullObject]
       ELSE bio' = [bio EXCEPT !.pc = "returned",
                               !.result = BiometricResult(TRUE, bio.credentials),
                               !.outcome = outcome,
                               !.credentials = NullObject]
  /\ UNCHANGED << storageVars, apiVars, appVars, req, ca, ui, enrollAlert, tdz >>
  /\ stored' = Observed

\* performBiometricLogin, resumed with the prompt's result.
PblAuthenticated ==
  /\ bio.pc = "pbl173"
  /\ \E outcome \in PromptOutcomes :
       IF ~AuthenticateWithBiometrics(outcome)
       THEN bio' = [bio EXCEPT !.pc = "returned", !.result = BiometricFailure,
                               !.outcome = outcome, !.failed = (outcome = "error"),
                               !.credentials = NullObject]
       ELSE bio' = [bio EXCEPT !.pc = "returned",
                               !.result = BiometricResult(TRUE, bio.credentials),
                               !.outcome = outcome,
                               !.credentials = NullObject]
  /\ UNCHANGED << storageVars, apiVars, appVars, req, ca, ui, enrollAlert, tdz >>
  /\ stored' = Observed

PerformBiometricLoginStep == PblEnabled \/ PblCredentials \/ PblAuthenticated

\* ------------------------------------------------------------------ App.js

\* A variant that forgets the recorded token first and drops the instance
\* only on a call that finds no token recorded.
ResetLazily(m) ==
  IF m.currentSessionToken = Null
    THEN [apiInstance |-> NullObject, currentSessionToken |-> Null]
    ELSE [m EXCEPT !.currentSessionToken = Null]

\* resetApiInstance(), as a function of the module state m.
Reset(m) == [apiInstance |-> NullObject, currentSessionToken |-> Null]

\* resetApiInstance()
ResetApiInstance ==
  /\ apiInstance' = Reset(Module).apiInstance
  /\ currentSessionToken' = Reset(Module).currentSessionToken

\* setNeedsAuth(true); setIsAuthenticated(false)
RequireLogin ==
  /\ needsAuth' = TRUE
  /\ isAuthenticated' = FALSE

\* setIsAuthenticated(true); setNeedsAuth(false)
GrantAccess ==
  /\ isAuthenticated' = TRUE
  /\ needsAuth' = FALSE

\* What the probe GET /api/auth/status may come to: "failed" is a rejected or
\* timed-out fetch or a body that is not JSON; "null" is the JSON body null,
\* on which status.auth_mode throws; otherwise the auth_mode of the body
\* ("unknown" stands for a missing or unlisted mode).  A fetch without a base
\* URL has no server to reach.
ProbeOutcomes(baseURL) ==
  IF baseURL = Null THEN {"failed"}
  ELSE {"failed", "null", "none", "full", "unknown"}

\* The probe ends the run in a catch block: the inner one for a failed
\* probe, the outer one for a null body.
ProbeThrows(outcome) == outcome \in {"failed", "null"}

\* The server never answers the call.
Silent == [kind |-> "silent"]

\* The error fetchWithTimeout throws when its timer aborts the call.
TimedOut == [kind |-> "throw", message |-> "Request timed out"]

\* fetchWithTimeout(url, options): what the awaited call comes to for the
\* server's answer; a call never answered is aborted after timeoutMs.
FetchWithTimeout(answer) == IF answer = Silent THEN TimedOut ELSE answer

\* fetch(url, options): the call settles as the server answers; a call never
\* answered stays pending.
Fetch(answer) == answer

\* What a login or register call may come to: a rejected or timed-out fetch,
\* a non-OK status, an OK status with a body that is not JSON, or an OK
\* status with a session.
LoginOutcomes ==
  { [kind |-> "throw"], [kind |-> "notOk"], [kind |-> "badJson"] }
    \cup { [kind |-> "ok", data |-> d] : d \in LoginBodies }

\* What GET /api/auth/me may come to; an OK body is a user, or JSON null.
MeOutcomes ==
  { [kind |-> "throw"], [kind |-> "notOk"], [kind |-> "badJson"] }
    \cup { [kind |-> "ok", user |-> u] : u \in Users \cup {Null} }

\* checkAuthentication is called from the mount effect: it awaits
\* getApiBaseUrl().
CaStart ==
  /\ ca.pc = "start"
  /\ ca' = [ca EXCEPT !.pc = "ca60",
                      !.atStart = [ AsyncStorage |-> AsyncStorage,
                                    SecureStore |-> SecureStore ]]
  /\ UNCHANGED << storageVars, apiVars, appVars, req, bio, ui, enrollAlert, tdz >>
  /\ stored' = Observed

\* Resumed with the base URL: the status probe is sent.
CaProbe ==
  /\ ca.pc = "ca60"
  /\ ca' = [ca EXCEPT !.pc = "ca65", !.baseURL = GetApiBaseUrl,
                      !.calls = Append(@, "status")]
  /\ UNCHANGED << storageVars, apiVars, appVars, req, bio, ui, enrollAlert, tdz >>
  /\ stored' = Observed

\* A variant in which an unreachable server does not end the run: it goes on
\* to the stored token.
CaStatusFallsThrough ==
  /\ ca.pc = "ca65"
  /\ \E outcome \in ProbeOutcomes(ca.baseURL) :
       IF ProbeThrows(outcome)
       THEN /\ ca' = [ca EXCEPT !.pc = "ca118", !.probe = outcome,
                                !.calls = Append(@, "getItem(SESSION_TOKEN)")]
            /\ UNCHANGED << isAuthenticated, needsAuth, checkingAuth >>
       ELSE IF outcome = "none"
       THEN /\ GrantAccess
            /\ checkingAuth' = FALSE
            /\ ca' = [ca EXCEPT !.pc = "done", !.probe = outcome]
       ELSE /\ ca' = [ca EXCEPT !.pc = "ca86", !.probe = outcome,
                                !.calls = Append(@, "isBiometricEnabled")]
            /\ UNCHANGED << isAuthenticated, needsAuth, checkingAuth >>
  /\ UNCHANGED << storageVars, apiVars, currentUser, req, bio, ui, enrollAlert, tdz >>
  /\ stored' = Observed

\* A variant that does not look at the auth mode: mode 'none' goes through
\* the credential checks like any other.
CaStatusIgnoresMode ==
  /\ ca.pc = "ca65"
  /\ \E outcome \in ProbeOutcomes(ca.baseURL) :
       IF ProbeThrows(outcome)
       THEN /\ RequireLogin
            /\ checkingAuth' = FALSE
            /\ ca' = [ca EXCEPT !.pc = "done", !.probe = outcome]
       ELSE /\ ca' = [ca EXCEPT !.pc = "ca86", !.probe = outcome,
                                !.calls = Append(@, "isBiometricEnabled")]
            /\ UNCHANGED << isAuthenticated, needsAuth, checkingAuth >>
  /\ UNCHANGED << storageVars, apiVars, currentUser, req, bio, ui, enrollAlert, tdz >>
  /\ stored' = Observed

\* Resumed with the probe's outcome.  Unreachable: the landing page is shown.
\* Mode 'none': no authentication is needed.  Otherwise isBiometricEnabled()
\* is awaited.
CaStatus ==
  /\ ca.pc = "ca65"
  /\ \E outcome \in ProbeOutcomes(ca.baseURL) :
       IF ProbeThrows(outcome)
       THEN /\ RequireLogin
            /\ checkingAuth' = FALSE
            /\ ca' = [ca EXCEPT !.pc = "done", !.probe = outcome,
                                !.caught = IF outcome = "null" THEN "outer"
                                                               ELSE "inner"]
       ELSE IF outcome = "none"
       THEN /\ GrantAccess
            /\ checkingAuth' = FALSE
            /\ ca' = [ca EXCEPT !.pc = "done", !.probe = outcome]
       ELSE /\ ca' = [ca EXCEPT !.pc = "ca86", !.probe = outcome,
                                !.calls = Append(@, "isBiometricEnabled")]
            /\ UNCHANGED << isAuthenticated, needsAuth, checkingAuth >>
  /\ UNCHANGED << storageVars, apiVars, currentUser, req, bio, ui, enrollAlert, tdz >>
  /\ stored' = Observed

\* Resumed with the enabled flag: performBiometricLogin() is awaited when it
\* is set, else the read of SESSION_TOKEN.
CaBiometricEnabled ==
  /\ ca.pc = "ca86"
  /\ \E readOk \in BOOLEAN :
       IF IsBiometricEnabled(readOk)
       THEN /\ ca' = [ca EXCEPT !.pc = "ca89",
                                !.calls = Append(@, "performBiometricLogin")]
            /\ bio' = CallPerformBiometricLogin
       ELSE /\ ca' = [ca EXCEPT !.pc = "ca118",
                                !.calls = Append(@, "getItem(SESSION_TOKEN)")]
            /\ UNCHANGED bio
  /\ UNCHANGED << storageVars, apiVars, appVars, req, ui, enrollAlert, tdz >>
  /\ stored' = Observed

\* Resumed with performBiometricLogin's result: with credentials the login
\* call is sent, else the read of SESSION_TOKEN is awaited.
CaBiometricResult ==
  /\ ca.pc = "ca89"
  /\ bio.pc = "returned"
  /\ IF bio.result.success /\ bio.result.credentials # NullObject
     THEN ca' = [ca EXCEPT !.pc = "ca94", !.calls = Append(@, "login"),
                           !.credentials = bio.result.credentials,
                           !.prompts = bio.prompts]
     ELSE ca' = [ca EXCEPT !.pc = "ca118",
                           !.calls = Append(@, "getItem(SESSION_TOKEN)"),
                           !.prompts = bio.prompts]
  /\ bio' = IdleBio
  /\ UNCHANGED << storageVars, apiVars, appVars, req, ui, enrollAlert, tdz >>
  /\ stored' = Observed

\* A variant that gives up on a refused login: login is required and the
\* run ends.
CaLoginResponseGivesUp ==
  /\ ca.pc = "ca94"
  /\ \E answer \in LoginOutcomes \cup {Silent} :
       LET outcome == FetchWithTimeout(answer) IN
       IF outcome.kind = "ok"
       THEN /\ AsyncStorage' = SetItem("SESSION_TOKEN", outcome.data.session_token)
            /\ ca' = [ca EXCEPT !.pc = "ca102", !.data = outcome.data,
                                !.login = outcome.kind,
                                !.calls = Append(@, "setItem(SESSION_TOKEN)")]
            /\ UNCHANGED appVars
       ELSE /\ RequireLogin
            /\ checkingAuth' = FALSE
            /\ ca' = [ca EXCEPT !.pc = "done", !.login = outcome.kind]
            /\ UNCHANGED << AsyncStorage, currentUser >>
  /\ UNCHANGED << SecureStore, apiVars, req, bio, ui, enrollAlert, tdz >>
  /\ stored' = Observed

\* Resumed with the login call's outcome: on an OK response the session
\* token is stored; on anything else the run falls through to the stored
\* token.
CaLoginResponse ==
  /\ ca.pc = "ca94"
  /\ \E answer \in LoginOutcomes \cup {Silent} :
       LET outcome == FetchWithTimeout(answer) IN
       IF outcome.kind = "ok"
       THEN /\ AsyncStorage' = SetItem("SESSION_TOKEN", outcome.data.session_token)
            /\ ca' = [ca EXCEPT !.pc = "ca102", !.data = outcome.data,
                                !.login = outcome.kind,
                                !.calls = Append(@, "setItem(SESSION_TOKEN)")]
       ELSE /\ ca' = [ca EXCEPT !.pc = "ca118", !.login = outcome.kind,
                                !.calls = Append(@, "getItem(SESSION_TOKEN)")]
            /\ UNCHANGED AsyncStorage
  /\ UNCHANGED << SecureStore, apiVars, appVars, req, bio, ui, enrollAlert, tdz >>
  /\ stored' = Observed

\* Resumed after the token is stored: reset the API instance, then set the
\* user and the flags.
CaLoginSuccess ==
  /\ ca.pc = "ca102"
  /\ ResetApiInstance
  /\ currentUser' = ca.data.user
  /\ GrantAccess
  /\ checkingAuth' = FALSE
  /\ ca' = [ca EXCEPT !.pc = "done",
                      !.calls = @ \o <<"resetApiInstance", "setIsAuthenticated(true)">>]
  /\ UNCHANGED << storageVars, req, bio, ui, enrollAlert, tdz >>
  /\ stored' = Observed

\* A variant whose handler for an unexpected error lets the user in.
CaSessionTokenFailsOpen ==
  /\ ca.pc = "ca118"
  /\ \E readOk \in BOOLEAN :
       IF ~readOk
       THEN /\ GrantAccess
            /\ checkingAuth' = FALSE
            /\ ca' = [ca EXCEPT !.pc = "done", !.caught = "outer"]
       ELSE IF Truthy(AsyncStorage["SESSION_TOKEN"])
       THEN /\ ca' = [ca EXCEPT !.pc = "ca123", !.calls = Append(@, "me"),
                                !.sessionToken = AsyncStorage["SESSION_TOKEN"]]
            /\ UNCHANGED << isAuthenticated, needsAuth, checkingAuth >>
       ELSE /\ RequireLogin
            /\ checkingAuth' = FALSE
            /\ ca' = [ca EXCEPT !.pc = "done"]
  /\ UNCHANGED << storageVars, apiVars, currentUser, req, bio, ui, enrollAlert, tdz >>
  /\ stored' = Observed

\* Resumed with the stored session token.  A read that throws is caught by
\* the outer catch block, which requires login; with a token GET
\* /api/auth/me is sent; without one login is required.
CaSessionToken ==
  /\ ca.pc = "ca118"
  /\ \E readOk \in BOOLEAN :
       IF ~readOk
       THEN /\ RequireLogin
            /\ checkingAuth' = FALSE
            /\ ca' = [ca EXCEPT !.pc = "done", !.caught = "outer"]
       ELSE IF Truthy(AsyncStorage["SESSION_TOKEN"])
       THEN /\ ca' = [ca EXCEPT !.pc = "ca123", !.calls = Append(@, "me"),
                                !.sessionToken = AsyncStorage["SESSION_TOKEN"]]
            /\ UNCHANGED << isAuthenticated, needsAuth, checkingAuth >>
       ELSE /\ RequireLogin
            /\ checkingAuth' = FALSE
            /\ ca' = [ca EXCEPT !.pc = "done"]
  /\ UNCHANGED << storageVars, apiVars, currentUser, req, bio, ui, enrollAlert, tdz >>
  /\ stored' = Observed

\* A variant that takes the user from a field the body does not have.
CaMeResponseMissesUser ==
  /\ ca.pc = "ca123"
  /\ \E outcome \in MeOutcomes :
       IF outcome.kind = "ok"
       THEN /\ currentUser' = Null
            /\ GrantAccess
            /\ checkingAuth' = FALSE
            /\ ca' = [ca EXCEPT !.pc = "done", !.me = outcome.kind,
                                !.userData = outcome.user,
                                !.calls = Append(@, "setIsAuthenticated(true)")]
            /\ UNCHANGED AsyncStorage
       ELSE /\ AsyncStorage' = RemoveItem("SESSION_TOKEN")
            /\ ca' = [ca EXCEPT !.pc = "ca139", !.me = outcome.kind,
                                !.calls = Append(@, "removeItem(SESSION_TOKEN)")]
            /\ UNCHANGED appVars
  /\ UNCHANGED << SecureStore, apiVars, req, bio, ui, enrollAlert, tdz >>
  /\ stored' = Observed

\* A variant that removes the token on a non-OK status only: a request that
\* throws leaves it stored.
CaMeResponseKeepsTokenOnThrow ==
  /\ ca.pc = "ca123"
  /\ \E outcome \in MeOutcomes :
       IF outcome.kind = "ok"
       THEN /\ currentUser' = outcome.user
            /\ GrantAccess
            /\ checkingAuth' = FALSE
            /\ ca' = [ca EXCEPT !.pc = "done", !.me = outcome.kind,
                                !.userData = outcome.user,
                                !.calls = Append(@, "setIsAuthenticated(true)")]
            /\ UNCHANGED AsyncStorage
       ELSE /\ AsyncStorage' = IF outcome.kind = "notOk"
                                 THEN RemoveItem("SESSION_TOKEN") ELSE AsyncStorage
            /\ ca' = [ca EXCEPT !.pc = "ca139", !.me = outcome.kind,
                                !.calls = Append(@, "removeItem(SESSION_TOKEN)")]
            /\ UNCHANGED appVars
  /\ UNCHANGED << SecureStore, apiVars, req, bio, ui, enrollAlert, tdz >>
  /\ stored' = Observed

\* Resumed with the outcome of GET /api/auth/me: an OK response with a user
\* authenticates; anything else removes the stored token.
CaMeResponse ==
  /\ ca.pc = "ca123"
  /\ \E answer \in MeOutcomes \cup {Silent} :
       LET outcome == FetchWithTimeout(answer) IN
       IF outcome.kind = "ok"
       THEN /\ currentUser' = outcome.user
            /\ GrantAccess
            /\ checkingAuth' = FALSE
            /\ ca' = [ca EXCEPT !.pc = "done", !.me = outcome.kind,
                                !.userData = outcome.user,
                                !.calls = Append(@, "setIsAuthenticated(true)")]
            /\ UNCHANGED AsyncStorage
       ELSE /\ AsyncStorage' = RemoveItem("SESSION_TOKEN")
            /\ ca' = [ca EXCEPT !.pc = "ca139", !.me = outcome.kind,
                                !.calls = Append(@, "removeItem(SESSION_TOKEN)")]
            /\ UNCHANGED appVars
  /\ UNCHANGED << SecureStore, apiVars, req, bio, ui, enrollAlert, tdz >>
  /\ stored' = Observed

\* A variant without the finally block: the check is never declared over.
CaSessionInvalidKeepsChecking ==
  /\ ca.pc = "ca139"
  /\ RequireLogin
  /\ checkingAuth' = checkingAuth
  /\ ca' = [ca EXCEPT !.pc = "done"]
  /\ UNCHANGED << storageVars, apiVars, currentUser, req, bio, ui, enrollAlert, tdz >>
  /\ stored' = Observed

\* A variant that lets the user in after the token was refused.
CaSessionInvalidGrantsAccess ==
  /\ ca.pc = "ca139"
  /\ GrantAccess
  /\ checkingAuth' = FALSE
  /\ ca' = [ca EXCEPT !.pc = "done"]
  /\ UNCHANGED << storageVars, apiVars, currentUser, req, bio, ui, enrollAlert, tdz >>
  /\ stored' = Observed

\* Resumed after the removal of the invalid token: login is required.
CaSessionInvalid ==
  /\ ca.pc = "ca139"
  /\ RequireLogin
  /\ checkingAuth' = FALSE
  /\ ca' = [ca EXCEPT !.pc = "done"]
  /\ UNCHANGED << storageVars, apiVars, currentUser, req, bio, ui, enrollAlert, tdz >>
  /\ stored' = Observed

\* App renders with checkingAuth false: the navigator mounts one of the two
\* stacks and the run's local variables are gone.
Render ==
  /\ ca.pc = "done"
  /\ ca' = [StartCa EXCEPT !.pc = "rendered"]
  /\ UNCHANGED << storageVars, apiVars, appVars, req, bio, ui, enrollAlert, tdz >>
  /\ stored' = Observed

CheckAuthenticationStep ==
  \/ CaStart
  \/ CaProbe
  \/ CaStatus
  \/ CaBiometricEnabled
  \/ CaBiometricResult
  \/ CaLoginResponse
  \/ CaLoginSuccess
  \/ CaSessionToken
  \/ CaMeResponse
  \/ CaSessionInvalid
  \/ Render

\* A variant that sets the user and the flags without resetting the client.
HandleLoginSuccessKeepsInstance(user) ==
  /\ currentUser' = user
  /\ GrantAccess
  /\ UNCHANGED apiVars

\* handleLoginSuccess(user)
HandleLoginSuccess(user) ==
  /\ ResetApiInstance
  /\ currentUser' = user
  /\ GrantAccess

\* A screen handler may start when its screen is mounted, no other handler
\* is running and no alert is waiting for an answer.
CanPress == Mounted /\ ui.pc = "idle" /\ enrollAlert = NullObject

Running(handler, pc) == ui.handler = handler /\ ui.pc = pc

Finished(outcome) == [ui EXCEPT !.pc = "done", !.outcome = outcome]

\* The handler has returned after onLoginSuccess(user).
LoggedIn ==
  [ui EXCEPT !.pc = "done", !.outcome = "Success",
             !.calls = @ \o <<"resetApiInstance", "setIsAuthenticated(true)">>]

\* ------------------------------------------------------- LandingScreen.js

\* !serverUrl.trim()
IsBlank(text) == Trim(text) = <<>>

\* serverUrl.trim().replace(/\/+$/, '')
CleanUrl(serverUrl) == StripTrailingSlashes(Trim(serverUrl))

\* cleanUrl.startsWith('http://') || cleanUrl.startsWith('https://')
HasHttpScheme(cleanUrl) ==
  StartsWith(cleanUrl, HttpPrefix) \/ StartsWith(cleanUrl, HttpsPrefix)

\* handleConfigureServer: an empty or schemeless URL is refused with an
\* alert; a valid one is stored.
HandleConfigureServer(serverUrl) ==
  /\ CanPress
  /\ AuthStackShown
  /\ LET started == [IdleUi EXCEPT !.handler = "handleConfigureServer"] IN
       IF IsBlank(serverUrl)
       THEN /\ ui' = [started EXCEPT !.pc = "done", !.outcome = "Error"]
            /\ UNCHANGED AsyncStorage
       ELSE IF ~HasHttpScheme(CleanUrl(serverUrl))
       THEN /\ ui' = [started EXCEPT !.pc = "done", !.outcome = "Invalid URL"]
            /\ UNCHANGED AsyncStorage
       ELSE /\ AsyncStorage' = SetItem("API_BASE_URL", CleanUrl(serverUrl))
            /\ ui' = [started EXCEPT !.pc = "cfg36"]
  /\ UNCHANGED << SecureStore, apiVars, appVars, req, ca, bio, enrollAlert, tdz >>
  /\ stored' = Observed

\* handleConfigureServer, resumed after the URL is stored.
ConfigureServerReset ==
  /\ Running("handleConfigureServer", "cfg36")
  /\ ResetApiInstance
  /\ ui' = Finished("Success")
  /\ UNCHANGED << storageVars, appVars, req, ca, bio, enrollAlert, tdz >>
  /\ stored' = Observed

\* The "Configure server" link: the stored URL is removed.
ChangeServer ==
  /\ CanPress
  /\ AuthStackShown
  /\ AsyncStorage' = RemoveItem("API_BASE_URL")
  /\ ui' = [IdleUi EXCEPT !.handler = "changeServer", !.pc = "chg127"]
  /\ UNCHANGED << SecureStore, apiVars, appVars, req, ca, bio, enrollAlert, tdz >>
  /\ stored' = Observed

ChangeServerReset ==
  /\ Running("changeServer", "chg127")
  /\ ResetApiInstance
  /\ ui' = Finished("Success")
  /\ UNCHANGED << storageVars, appVars, req, ca, bio, enrollAlert, tdz >>
  /\ stored' = Observed

\* ------------------------------------------------------ SettingsScreen.js

\* saveConnectionSettings: the URL is stored as typed.
SaveConnectionSettings(serverUrl, useApiKey, apiKey) ==
  /\ CanPress
  /\ MainStackShown
  /\ LET started == [IdleUi EXCEPT !.handler = "saveConnectionSettings"] IN
       IF IsBlank(serverUrl)
       THEN /\ ui' = [started EXCEPT !.pc = "done", !.outcome = "Error"]
            /\ UNCHANGED AsyncStorage
       ELSE /\ AsyncStorage' = SetItem("API_BASE_URL", serverUrl)
            /\ ui' = [started EXCEPT
                        !.pc = "save101",
                        !.key = IF useApiKey /\ Truthy(apiKey) THEN apiKey ELSE Null]
  /\ UNCHANGED << SecureStore, apiVars, appVars, req, ca, bio, enrollAlert, tdz >>
  /\ stored' = Observed

\* saveConnectionSettings, resumed after the URL is stored: the key is stored
\* or removed.
SaveConnectionKey ==
  /\ Running("saveConnectionSettings", "save101")
  /\ AsyncStorage' =
       IF Truthy(ui.key) THEN SetItem("API_KEY", ui.key) ELSE RemoveItem("API_KEY")
  /\ ui' = [ui EXCEPT !.pc = "save107", !.key = Null]
  /\ UNCHANGED << SecureStore, apiVars, appVars, req, ca, bio, enrollAlert, tdz >>
  /\ stored' = Observed

\* saveConnectionSettings, resumed after the key: the alert asks for a
\* restart of the app.
SaveConnectionDone ==
  /\ Running("saveConnectionSettings", "save107")
  /\ ui' = Finished("Success")
  /\ UNCHANGED << storageVars, apiVars, appVars, req, ca, bio, enrollAlert, tdz >>
  /\ stored' = Observed

\* ---------------------------------------------- api.js: setApiKey, removeApiKey

\* setApiKey(apiKey): a key with text is stored trimmed, else the key is
\* removed.
SetApiKey(apiKey) ==
  /\ CanPress
  /\ AsyncStorage' =
       IF Truthy(apiKey) /\ Truthy(Trim(apiKey))
       THEN SetItem("API_KEY", Trim(apiKey))
       ELSE RemoveItem("API_KEY")
  /\ ui' = [IdleUi EXCEPT !.handler = "setApiKey", !.pc = "key74"]
  /\ UNCHANGED << SecureStore, apiVars, appVars, req, ca, bio, enrollAlert, tdz >>
  /\ stored' = Observed

SetApiKeyReset ==
  /\ Running("setApiKey", "key74")
  /\ ResetApiInstance
  /\ ui' = Finished("Success")
  /\ UNCHANGED << storageVars, appVars, req, ca, bio, enrollAlert, tdz >>
  /\ stored' = Observed

\* removeApiKey()
RemoveApiKey ==
  /\ CanPress
  /\ AsyncStorage' = RemoveItem("API_KEY")
  /\ ui' = [IdleUi EXCEPT !.handler = "removeApiKey", !.pc = "key85"]
  /\ UNCHANGED << SecureStore, apiVars, appVars, req, ca, bio, enrollAlert, tdz >>
  /\ stored' = Observed

RemoveApiKeyReset ==
  /\ Running("removeApiKey", "key85")
  /\ ResetApiInstance
  /\ ui' = Finished("Success")
  /\ UNCHANGED << storageVars, appVars, req, ca, bio, enrollAlert, tdz >>
  /\ stored' = Observed

\* ----------------------------------------- LoginScreen.js, SignupScreen.js

\* The handler of each screen's submit button.
SubmitHandler(screen) == IF screen = "Login" THEN "handleLogin" ELSE "handleSignup"

Submitting(pc) == ui.handler \in {"handleLogin", "handleSignup"} /\ ui.pc = pc

\* A login or register call without a base URL has no server to reach.
LoginOutcomesAt(baseURL) ==
  IF baseURL = Null THEN { [kind |-> "throw"] } ELSE LoginOutcomes

\* handleLogin / handleSignup with a filled form: getApiBaseUrl() is awaited.
HandleSubmit(screen, credentials) ==
  /\ CanPress
  /\ AuthStackShown
  /\ ui' = [IdleUi EXCEPT !.handler = SubmitHandler(screen), !.screen = screen,
                          !.pc = "login154", !.credentials = credentials]
  /\ UNCHANGED << storageVars, apiVars, appVars, req, ca, bio, enrollAlert, tdz >>
  /\ stored' = Observed

\* Resumed with the base URL: the login (register) call is sent.
SubmitSend ==
  /\ Submitting("login154")
  /\ ui' = [ui EXCEPT !.pc = "login155", !.baseURL = GetApiBaseUrl]
  /\ UNCHANGED << storageVars, apiVars, appVars, req, ca, bio, enrollAlert, tdz >>
  /\ stored' = Observed

\* Resumed with the call's outcome: an OK response stores the session token.
\* handleLogin calls fetchWithTimeout, handleSignup calls fetch: its call to
\* a server that never answers stays pending, and the handler with it.
SubmitResponse ==
  /\ Submitting("login155")
  /\ \E answer \in LoginOutcomesAt(ui.baseURL) \cup
                    (IF ui.baseURL = Null THEN {} ELSE {Silent}) :
       LET outcome == IF ui.handler = "handleLogin"
                      THEN FetchWithTimeout(answer) ELSE Fetch(answer) IN
       IF outcome = Silent
       THEN /\ ui' = [ui EXCEPT !.pc = "pending"]
            /\ UNCHANGED AsyncStorage
       ELSE IF outcome.kind = "ok"
       THEN /\ AsyncStorage' = SetItem("SESSION_TOKEN", outcome.data.session_token)
            /\ ui' = [ui EXCEPT !.pc = "login168", !.data = outcome.data,
                                !.calls = Append(@, "setItem(SESSION_TOKEN)")]
       ELSE /\ ui' = Finished(IF outcome.kind = "notOk" THEN "Failed"
                                                        ELSE "Connection Error")
            /\ UNCHANGED AsyncStorage
  /\ UNCHANGED << SecureStore, apiVars, appVars, req, ca, bio, enrollAlert, tdz >>
  /\ stored' = Observed

\* Resumed after the token is stored: reset the API instance, then
\* promptBiometricEnrollment awaits isBiometricSupported().
SubmitStored ==
  /\ Submitting("login168")
  /\ ResetApiInstance
  /\ ui' = [ui EXCEPT !.pc = "login111", !.calls = Append(@, "resetApiInstance")]
  /\ UNCHANGED << storageVars, appVars, req, ca, bio, enrollAlert, tdz >>
  /\ stored' = Observed

\* promptBiometricEnrollment has returned (the capability checks it awaits
\* read and write nothing of the app, and are taken as one step): when the
\* device has biometrics the alert is shown; then onLoginSuccess is called.
EnrollmentPrompt ==
  /\ Submitting("login111")
  /\ \E supported \in BOOLEAN, enrolled \in BOOLEAN :
       enrollAlert' =
         IF ~supported \/ ~enrolled
         THEN enrollAlert
         ELSE [ username |-> Trim(ui.credentials.username),
                password |-> ui.credentials.password ]
  /\ HandleLoginSuccess(ui.data.user)
  /\ ui' = LoggedIn
  /\ UNCHANGED << storageVars, checkingAuth, req, ca, bio, tdz >>
  /\ stored' = Observed

\* handleBiometricLogin (the button is shown when biometric login is
\* enabled): performBiometricLogin() is awaited.
HandleBiometricLogin ==
  /\ CanPress
  /\ AuthStackShown
  /\ IsBiometricEnabled(TRUE)
  /\ bio' = CallPerformBiometricLogin
  /\ ui' = [IdleUi EXCEPT !.handler = "handleBiometricLogin", !.pc = "bl79"]
  /\ UNCHANGED << storageVars, apiVars, appVars, req, ca, enrollAlert, tdz >>
  /\ stored' = Observed

\* Resumed with performBiometricLogin's result.
BiometricLoginResult ==
  /\ Running("handleBiometricLogin", "bl79")
  /\ bio.pc = "returned"
  /\ IF bio.result.success /\ bio.result.credentials # NullObject
     THEN ui' = [ui EXCEPT !.pc = "bl83", !.credentials = bio.result.credentials]
     ELSE ui' = Finished("Authentication Failed")
  /\ bio' = IdleBio
  /\ UNCHANGED << storageVars, apiVars, appVars, req, ca, enrollAlert, tdz >>
  /\ stored' = Observed

\* Resumed with the base URL: the login call is sent.
BiometricLoginSend ==
  /\ Running("handleBiometricLogin", "bl83")
  /\ ui' = [ui EXCEPT !.pc = "bl84", !.baseURL = GetApiBaseUrl]
  /\ UNCHANGED << storageVars, apiVars, appVars, req, ca, bio, enrollAlert, tdz >>
  /\ stored' = Observed

\* Resumed with the call's outcome.
BiometricLoginResponse ==
  /\ Running("handleBiometricLogin", "bl84")
  /\ \E answer \in LoginOutcomesAt(ui.baseURL) \cup
                    (IF ui.baseURL = Null THEN {} ELSE {Silent}) :
       LET outcome == FetchWithTimeout(answer) IN
       IF outcome.kind = "ok"
       THEN /\ AsyncStorage' = SetItem("SESSION_TOKEN", outcome.data.session_token)
            /\ ui' = [ui EXCEPT !.pc = "bl93", !.data = outcome.data,
                                !.calls = Append(@, "setItem(SESSION_TOKEN)")]
       ELSE /\ ui' = Finished(IF outcome.kind = "notOk" THEN "Failed" ELSE "Error")
            /\ UNCHANGED AsyncStorage
  /\ UNCHANGED << SecureStore, apiVars, appVars, req, ca, bio, enrollAlert, tdz >>
  /\ stored' = Observed

\* Resumed after the token is stored: reset, then onLoginSuccess.
BiometricLoginStored ==
  /\ Running("handleBiometricLogin", "bl93")
  /\ HandleLoginSuccess(ui.data.user)
  /\ ui' = [LoggedIn EXCEPT !.calls = Append(ui.calls, "resetApiInstance") \o
                                       <<"resetApiInstance", "setIsAuthenticated(true)">>]
  /\ UNCHANGED << storageVars, checkingAuth, req, ca, bio, enrollAlert, tdz >>
  /\ stored' = Observed

\* The alert's "Not Now".
DismissEnrollment ==
  /\ enrollAlert # NullObject
  /\ enrollAlert' = NullObject
  /\ UNCHANGED << storageVars, apiVars, appVars, req, ca, bio, ui, tdz >>
  /\ stored' = Observed

\* The alert's "Enable": saveCredentials is awaited; the secure write may
\* throw, and then nothing is stored.
EnableBiometric ==
  /\ enrollAlert # NullObject
  /\ ui.pc = "idle"
  /\ \E writeOk \in BOOLEAN :
       /\ SecureStore' = IF writeOk THEN JsonStringify(enrollAlert) ELSE SecureStore
       /\ ui' = [IdleUi EXCEPT !.handler = "enableBiometric", !.pc = "en132",
                               !.saved = writeOk]
  /\ enrollAlert' = NullObject
  /\ UNCHANGED << AsyncStorage, apiVars, appVars, req, ca, bio, tdz >>
  /\ stored' = Observed

\* Resumed with saveCredentials' result: when saved, setBiometricEnabled(true)
\* is awaited (its write may throw).
EnableBiometricSaved ==
  /\ Running("enableBiometric", "en132")
  /\ IF ui.saved
     THEN \E writeOk \in BOOLEAN :
            /\ AsyncStorage' = IF writeOk THEN SetItem("BIOMETRIC_ENABLED", BiometricTrue)
                                          ELSE AsyncStorage
            /\ ui' = [ui EXCEPT !.pc = "en134"]
     ELSE /\ ui' = Finished("Error")
          /\ UNCHANGED AsyncStorage
  /\ UNCHANGED << SecureStore, apiVars, appVars, req, ca, bio, enrollAlert, tdz >>
  /\ stored' = Observed

EnableBiometricDone ==
  /\ Running("enableBiometric", "en134")
  /\ ui' = Finished("Success")
  /\ UNCHANGED << storageVars, apiVars, appVars, req, ca, bio, enrollAlert, tdz >>
  /\ stored' = Observed

\* handleBiometricToggle(false), confirmed: deleteCredentials() is awaited;
\* the secure delete may throw.
DisableBiometric ==
  /\ CanPress
  /\ MainStackShown
  /\ currentUser # Null
  /\ IsBiometricEnabled(TRUE)
  /\ \E deleteOk \in BOOLEAN :
       /\ SecureStore' = IF deleteOk THEN Null ELSE SecureStore
       /\ ui' = [IdleUi EXCEPT !.handler = "deleteCredentials", !.pc = "del126",
                               !.saved = deleteOk]
  /\ UNCHANGED << AsyncStorage, apiVars, appVars, req, ca, bio, enrollAlert, tdz >>
  /\ stored' = Observed

\* deleteCredentials, resumed after the delete: a throw returns false, else
\* setBiometricEnabled(false) is awaited (its write may throw).
DeleteCredentialsFlag ==
  /\ Running("deleteCredentials", "del126")
  /\ IF ui.saved
     THEN \E writeOk \in BOOLEAN :
            /\ AsyncStorage' = IF writeOk THEN SetItem("BIOMETRIC_ENABLED", BiometricFalse)
                                          ELSE AsyncStorage
            /\ ui' = [ui EXCEPT !.pc = "del127"]
     ELSE /\ ui' = Finished("Error")
          /\ UNCHANGED AsyncStorage
  /\ UNCHANGED << SecureStore, apiVars, appVars, req, ca, bio, enrollAlert, tdz >>
  /\ stored' = Observed

\* deleteCredentials returns true.
DeleteCredentialsDone ==
  /\ Running("deleteCredentials", "del127")
  /\ ui' = Finished("Success")
  /\ UNCHANGED << storageVars, apiVars, appVars, req, ca, bio, enrollAlert, tdz >>
  /\ stored' = Observed

\* ------------------------------------------------------ App.js: handleLogout

\* How the logout call may end.
LogoutOutcomes == {"ok", "notOk", "throw"}

\* handleLogout (the button is shown to a logged-in user): getApiBaseUrl()
\* is awaited.
HandleLogout ==
  /\ CanPress
  /\ MainStackShown
  /\ currentUser # Null
  /\ ui' = [IdleUi EXCEPT !.handler = "handleLogout", !.pc = "lo177"]
  /\ UNCHANGED << storageVars, apiVars, appVars, req, ca, bio, enrollAlert, tdz >>
  /\ stored' = Observed

\* Resumed with the base URL: the read of SESSION_TOKEN is awaited.
LogoutBaseUrl ==
  /\ Running("handleLogout", "lo177")
  /\ ui' = [ui EXCEPT !.pc = "lo178", !.baseURL = GetApiBaseUrl]
  /\ UNCHANGED << storageVars, apiVars, appVars, req, ca, bio, enrollAlert, tdz >>
  /\ stored' = Observed

\* Resumed with the token: with one the logout call is sent, without one the
\* removal of SESSION_TOKEN is awaited.
LogoutToken ==
  /\ Running("handleLogout", "lo178")
  /\ IF Truthy(AsyncStorage["SESSION_TOKEN"])
     THEN /\ ui' = [ui EXCEPT !.pc = "lo181"]
          /\ UNCHANGED AsyncStorage
     ELSE /\ ui' = [ui EXCEPT !.pc = "lo193"]
          /\ AsyncStorage' = RemoveItem("SESSION_TOKEN")
  /\ UNCHANGED << SecureStore, apiVars, appVars, req, ca, bio, enrollAlert, tdz >>
  /\ stored' = Observed

\* A variant with the removal inside the try block: a logout call that
\* throws skips it.
LogoutResponseInsideTry ==
  /\ Running("handleLogout", "lo181")
  /\ \E outcome \in LogoutOutcomes :
       /\ ui' = [ui EXCEPT !.pc = "lo193", !.outcome = outcome]
       /\ AsyncStorage' = IF outcome = "throw" THEN AsyncStorage
                                               ELSE RemoveItem("SESSION_TOKEN")
  /\ UNCHANGED << SecureStore, apiVars, appVars, req, ca, bio, enrollAlert, tdz >>
  /\ stored' = Observed

\* A variant that signs the device out altogether: the API key goes with
\* the session token.
LogoutResponseClearsKey ==
  /\ Running("handleLogout", "lo181")
  /\ \E outcome \in LogoutOutcomes :
       ui' = [ui EXCEPT !.pc = "lo193", !.outcome = outcome]
  /\ AsyncStorage' = [AsyncStorage EXCEPT !["SESSION_TOKEN"] = Null,
                                          !["API_KEY"] = Null]
  /\ UNCHANGED << SecureStore, apiVars, appVars, req, ca, bio, enrollAlert, tdz >>
  /\ stored' = Observed

\* Resumed with the logout call's outcome, whatever it is: the removal of
\* SESSION_TOKEN is awaited.
LogoutResponse ==
  /\ Running("handleLogout", "lo181")
  /\ \E outcome \in LogoutOutcomes :
       ui' = [ui EXCEPT !.pc = "lo193", !.outcome = outcome]
  /\ AsyncStorage' = RemoveItem("SESSION_TOKEN")
  /\ UNCHANGED << SecureStore, apiVars, appVars, req, ca, bio, enrollAlert, tdz >>
  /\ stored' = Observed

\* A variant that clears isAuthenticated and leaves needsAuth as it is.
LogoutDoneKeepsNeedsAuth ==
  /\ Running("handleLogout", "lo193")
  /\ ResetApiInstance
  /\ currentUser' = Null
  /\ isAuthenticated' = FALSE
  /\ needsAuth' = needsAuth
  /\ ui' = [ui EXCEPT !.pc = "done"]
  /\ UNCHANGED << storageVars, checkingAuth, req, ca, bio, enrollAlert, tdz >>
  /\ stored' = Observed

\* Resumed after the removal: reset the API instance, clear the user and
\* require login.
LogoutDone ==
  /\ Running("handleLogout", "lo193")
  /\ ResetApiInstance
  /\ currentUser' = Null
  /\ RequireLogin
  /\ ui' = [ui EXCEPT !.pc = "done"]
  /\ UNCHANGED << storageVars, checkingAuth, req, ca, bio, enrollAlert, tdz >>
  /\ stored' = Observed

\* The handler has returned.
UiReturn ==
  /\ ui.pc = "done"
  /\ ui' = IdleUi
  /\ UNCHANGED << storageVars, apiVars, appVars, req, ca, bio, enrollAlert, tdz >>
  /\ stored' = Observed

\* The user closes the app while no handler is running (or while one is left
\* waiting for a call that never settles) and opens it again:
\* what is in memory is gone, what is stored stays.
Restart ==
  /\ Mounted
  /\ ui.pc \in {"idle", "pending"}
  /\ enrollAlert = NullObject
  /\ apiInstance' = NullObject
  /\ currentSessionToken' = Null
  /\ isAuthenticated' = FALSE
  /\ needsAuth' = FALSE
  /\ checkingAuth' = TRUE
  /\ currentUser' = Null
  /\ req' = [ t \in Tasks |-> IdleTask ]
  /\ ca' = StartCa
  /\ ui' = IdleUi
  /\ UNCHANGED << storageVars, bio, enrollAlert, tdz >>
  /\ stored' = Observed

LandingStep ==
  \/ \E serverUrl \in LandingUrlInputs : HandleConfigureServer(serverUrl)
  \/ ConfigureServerReset
  \/ ChangeServer
  \/ ChangeServerReset

SettingsStep ==
  \/ \E serverUrl \in SettingsUrlInputs, useApiKey \in BOOLEAN,
        apiKey \in SettingsKeyInputs :
       SaveConnectionSettings(serverUrl, useApiKey, apiKey)
  \/ SaveConnectionKey
  \/ SaveConnectionDone
  \/ DisableBiometric
  \/ DeleteCredentialsFlag
  \/ DeleteCredentialsDone

ApiKeyStep ==
  \/ \E apiKey \in SetApiKeyInputs : SetApiKey(apiKey)
  \/ SetApiKeyReset
  \/ RemoveApiKey
  \/ RemoveApiKeyReset

LoginStep ==
  \/ \E screen \in {"Login", "Signup"}, credentials \in CredentialInputs :
       HandleSubmit(screen, credentials)
  \/ SubmitSend
  \/ SubmitResponse
  \/ SubmitStored
  \/ EnrollmentPrompt
  \/ HandleBiometricLogin
  \/ BiometricLoginResult
  \/ BiometricLoginSend
  \/ BiometricLoginResponse
  \/ BiometricLoginStored
  \/ DismissEnrollment
  \/ EnableBiometric
  \/ EnableBiometricSaved
  \/ EnableBiometricDone

LogoutStep ==
  \/ HandleLogout
  \/ LogoutBaseUrl
  \/ LogoutToken
  \/ LogoutResponse
  \/ LogoutDone

Next ==
  \/ \E t \in ScreenTasks : StartRequest(t)
  \/ \E t \in ScreenTasks : RequestStep(t)
  \/ CheckAuthenticationStep
  \/ PerformBiometricLoginStep
  \/ LandingStep
  \/ SettingsStep
  \/ ApiKeyStep
  \/ LoginStep
  \/ LogoutStep
  \/ UiReturn
  \/ Restart

Spec == Init /\ [][Next]_vars

\* One cooperative task at a time: a request or a handler starts only when
\* no other is in flight.
StartsRequest == \E t \in Tasks : req[t].pc = "idle" /\ req'[t].pc # "idle"
StartsHandler == ui.pc = "idle" /\ ui'.pc # "idle"
NoRequestInFlight == \A t \in Tasks : req[t].pc = "idle"

Sequential(A) ==
  /\ A
  /\ StartsRequest => ui.pc = "idle"
  /\ StartsHandler => NoRequestInFlight

NextSequential ==
  \/ Sequential(\E t \in ScreenTasks : StartRequest(t))
  \/ Sequential(\E t \in ScreenTasks : RequestStep(t))
  \/ Sequential(CheckAuthenticationStep)
  \/ Sequential(PerformBiometricLoginStep)
  \/ Sequential(LandingStep)
  \/ Sequential(SettingsStep)
  \/ Sequential(ApiKeyStep)
  \/ Sequential(LoginStep)
  \/ Sequential(LogoutStep)
  \/ Sequential(UiReturn)
  \/ Sequential(Restart)

SpecSequential == Init /\ [][NextSequential]_vars

\* Every storage call, biometric prompt and network request awaited by
\* checkAuthentication eventually returns, fails or times out, and App
\* eventually renders.
SpecStartup ==
  /\ Init /\ [][Next]_vars
  /\ WF_vars(CheckAuthenticationStep)
  /\ WF_vars(PerformBiometricLoginStep)

\* The main stack of a server in auth mode "none", mounted after a startup
\* with a configured URL; from here on the history of every rebuild is kept.
InitRebuild ==
  /\ AsyncStorage =
       [ k \in {"API_BASE_URL", "API_KEY", "SESSION_TOKEN", "BIOMETRIC_ENABLED"}
           |-> IF k = "API_BASE_URL" THEN <<"h", "/", "/", "a">> ELSE Null ]
  /\ SecureStore = Null
  /\ apiInstance = NullObject
  /\ currentSessionToken = Null
  /\ isAuthenticated = TRUE
  /\ needsAuth = FALSE
  /\ checkingAuth = FALSE
  /\ currentUser = Null
  /\ req = [ t \in Tasks |-> IdleTask ]
  /\ ca = [StartCa EXCEPT !.pc = "rendered"]
  /\ bio = IdleBio
  /\ ui = IdleUi
  /\ enrollAlert = NullObject
  /\ tdz \in BOOLEAN
  /\ stored = [ t \in Tasks |-> {} ]

\* Requests of the screens next to the Settings screen's connection form and
\* the API key functions.
NextRebuild ==
  \/ \E t \in ScreenTasks : StartRequest(t)
  \/ \E t \in ScreenTasks : RequestStep(t)
  \/ \E serverUrl \in SettingsUrlInputs, useApiKey \in BOOLEAN,
        apiKey \in SettingsKeyInputs :
       SaveConnectionSettings(serverUrl, useApiKey, apiKey)
  \/ SaveConnectionKey
  \/ SaveConnectionDone
  \/ ApiKeyStep
  \/ UiReturn

SpecRebuild == InitRebuild /\ [][NextRebuild]_vars

\* ------------------------------------------- biometricAuth.js, call by call

\* Username / password pairs saveCredentials is called with; one password
\* has a quote, a comma, a backslash and a brace in it.
CredentialPairs ==
  CredentialInputs
    \cup { [username |-> <<"bob">>,
            password |-> <<"p", "\"", ",", "\\", "}">>] }

\* What a capability probe of the platform may come to.
PlatformOutcomes == {"yes", "no", "throws"}

\* isBiometricSupported: hasHardwareAsync(), false when it throws.
IsBiometricSupported(platform) == platform = "yes"

\* isBiometricEnrolled: isEnrolledAsync(), false when it throws.
IsBiometricEnrolled(platform) == platform = "yes"

\* setBiometricEnabled(enabled): the flag is written as 'true' or 'false';
\* false is returned when the write throws.  Nothing else is touched.
SetBiometricEnabled(enabled, writeOk) ==
  [ AsyncStorage |->
      IF writeOk
      THEN SetItem("BIOMETRIC_ENABLED",
                   IF enabled THEN BiometricTrue ELSE BiometricFalse)
      ELSE AsyncStorage,
    returns |-> writeOk ]

\* saveCredentials(username, password): the stringified pair is written to
\* the secure store; false is returned when the write throws.
SaveCredentials(username, password, writeOk) ==
  [ SecureStore |->
      IF writeOk
      THEN JsonStringify([username |-> username, password |-> password])
      ELSE SecureStore,
    returns |-> writeOk ]

\* deleteCredentials: the pair is deleted, then setBiometricEnabled(false) is
\* awaited and its result dropped; true is returned.  When the delete throws
\* the flag is not touched and false is returned.
DeleteCredentials(deleteOk, writeOk) ==
  IF deleteOk
  THEN [ SecureStore |-> Null,
         AsyncStorage |-> SetBiometricEnabled(FALSE, writeOk).AsyncStorage,
         returns |-> TRUE ]
  ELSE [ SecureStore |-> SecureStore,
         AsyncStorage |-> AsyncStorage,
         returns |-> FALSE ]

\* The call of operation op has returned value; failed tells whether a
\* platform or storage call made on its behalf threw.
Returned(op, value, failed) ==
  [IdleBio EXCEPT !.pc = "returned", !.op = op, !.returns = value,
                  !.failed = failed]

\* One operation is called at a time.
GateIdle == bio.pc \in {"idle", "returned"}

IsBiometricSupportedCall ==
  /\ GateIdle
  /\ \E platform \in PlatformOutcomes :
       bio' = Returned("isBiometricSupported", IsBiometricSupported(platform),
                       platform = "throws")
  /\ UNCHANGED << storageVars, apiVars, appVars, req, ca, ui, enrollAlert, tdz >>
  /\ stored' = Observed

IsBiometricEnrolledCall ==
  /\ GateIdle
  /\ \E platform \in PlatformOutcomes :
       bio' = Returned("isBiometricEnrolled", IsBiometricEnrolled(platform),
                       platform = "throws")
  /\ UNCHANGED << storageVars, apiVars, appVars, req, ca, ui, enrollAlert, tdz >>
  /\ stored' = Observed

IsBiometricEnabledCall ==
  /\ GateIdle
  /\ \E readOk \in BOOLEAN :
       bio' = Returned("isBiometricEnabled", IsBiometricEnabled(readOk), ~readOk)
  /\ UNCHANGED << storageVars, apiVars, appVars, req, ca, ui, enrollAlert, tdz >>
  /\ stored' = Observed

SetBiometricEnabledCall ==
  /\ GateIdle
  /\ \E enabled \in BOOLEAN, writeOk \in BOOLEAN :
       LET call == SetBiometricEnabled(enabled, writeOk) IN
         /\ AsyncStorage' = call.AsyncStorage
         /\ bio' = Returned(IF enabled THEN "setBiometricEnabled(true)"
                                       ELSE "setBiometricEnabled(false)",
                            call.returns, ~writeOk)
  /\ UNCHANGED << SecureStore, apiVars, appVars, req, ca, ui, enrollAlert, tdz >>
  /\ stored' = Observed

SaveCredentialsCall ==
  /\ GateIdle
  /\ \E c \in CredentialPairs, writeOk \in BOOLEAN :
       LET call == SaveCredentials(c.username, c.password, writeOk) IN
         /\ SecureStore' = call.SecureStore
         /\ bio' = [Returned("saveCredentials", call.returns, ~writeOk)
                      EXCEPT !.credentials = c]
  /\ UNCHANGED << AsyncStorage, apiVars, appVars, req, ca, ui, enrollAlert, tdz >>
  /\ stored' = Observed

GetSavedCredentialsCall ==
  /\ GateIdle
  /\ \E readOk \in BOOLEAN :
       bio' = Returned("getSavedCredentials", GetSavedCredentials(readOk), ~readOk)
  /\ UNCHANGED << storageVars, apiVars, appVars, req, ca, ui, enrollAlert, tdz >>
  /\ stored' = Observed

DeleteCredentialsCall ==
  /\ GateIdle
  /\ \E deleteOk \in BOOLEAN, writeOk \in BOOLEAN :
       LET call == DeleteCredentials(deleteOk, writeOk) IN
         /\ SecureStore' = call.SecureStore
         /\ AsyncStorage' = call.AsyncStorage
         /\ bio' = Returned("deleteCredentials", call.returns,
                            ~deleteOk \/ ~writeOk)
  /\ UNCHANGED << apiVars, appVars, req, ca, ui, enrollAlert, tdz >>
  /\ stored' = Observed

AuthenticateWithBiometricsCall ==
  /\ GateIdle
  /\ \E outcome \in PromptOutcomes :
       bio' = [Returned("authenticateWithBiometrics",
                        AuthenticateWithBiometrics(outcome), outcome = "error")
                 EXCEPT !.prompts = 1, !.outcome = outcome]
  /\ UNCHANGED << storageVars, apiVars, appVars, req, ca, ui, enrollAlert, tdz >>
  /\ stored' = Observed

\* LocalAuthentication.AuthenticationType
AuthenticationType == {"FINGERPRINT", "FACIAL_RECOGNITION", "IRIS"}

\* The longest list of types getBiometricName is called with.
MaxTypes == 3

\* The arguments of getBiometricName: no list at all, or a list of types in
\* any order.
TypesInputs ==
  { [missing |-> TRUE, list |-> <<>>] }
    \cup { [missing |-> FALSE, list |-> l] :
             l \in UNION { [1..n -> AuthenticationType] : n \in 0..MaxTypes } }

\* Array.prototype.includes
Includes(list, x) == \E i \in 1..Len(list) : list[i] = x

\* A variant that looks for a fingerprint reader before the face camera.
GetBiometricNameFingerprintFirst(types) ==
  IF types.missing \/ Len(types.list) = 0 THEN "Biometric"
  ELSE IF Includes(types.list, "FINGERPRINT") THEN "Touch ID"
  ELSE IF Includes(types.list, "FACIAL_RECOGNITION") THEN "Face ID"
  ELSE IF Includes(types.list, "IRIS") THEN "Iris"
  ELSE "Biometric"

\* getBiometricName(types)
GetBiometricName(types) ==
  IF types.missing \/ Len(types.list) = 0 THEN "Biometric"
  ELSE IF Includes(types.list, "FACIAL_RECOGNITION") THEN "Face ID"
  ELSE IF Includes(types.list, "FINGERPRINT") THEN "Touch ID"
  ELSE IF Includes(types.list, "IRIS") THEN "Iris"
  ELSE "Biometric"

GetBiometricNameCall ==
  /\ GateIdle
  /\ \E types \in TypesInputs :
       bio' = [Returned("getBiometricName", GetBiometricName(types), FALSE)
                 EXCEPT !.arg = types]
  /\ UNCHANGED << storageVars, apiVars, appVars, req, ca, ui, enrollAlert, tdz >>
  /\ stored' = Observed

PerformBiometricLoginCall ==
  /\ GateIdle
  /\ bio' = CallPerformBiometricLogin
  /\ UNCHANGED << storageVars, apiVars, appVars, req, ca, ui, enrollAlert, tdz >>
  /\ stored' = Observed

\* A text that JSON.parse rejects.
Unparsable == <<"{", "alice">>

\* The module's operations are called over any stored flag and any stored
\* text, a text that does not parse included.
InitGate ==
  /\ AsyncStorage \in
       { [ k \in {"API_BASE_URL", "API_KEY", "SESSION_TOKEN", "BIOMETRIC_ENABLED"}
             |-> IF k = "BIOMETRIC_ENABLED" THEN flag ELSE Null ] :
           flag \in {Null, BiometricTrue, BiometricFalse} }
  /\ SecureStore \in {Null, Unparsable}
                       \cup { JsonStringify(c) : c \in CredentialPairs }
  /\ apiInstance = NullObject
  /\ currentSessionToken = Null
  /\ isAuthenticated = FALSE
  /\ needsAuth = FALSE
  /\ checkingAuth = TRUE
  /\ currentUser = Null
  /\ req = [ t \in Tasks |-> IdleTask ]
  /\ ca = StartCa
  /\ bio = IdleBio
  /\ ui = IdleUi
  /\ enrollAlert = NullObject
  /\ tdz \in BOOLEAN
  /\ stored = Untracked

NextGate ==
  \/ IsBiometricSupportedCall
  \/ IsBiometricEnrolledCall
  \/ IsBiometricEnabledCall
  \/ SetBiometricEnabledCall
  \/ SaveCredentialsCall
  \/ GetSavedCredentialsCall
  \/ DeleteCredentialsCall
  \/ AuthenticateWithBiometricsCall
  \/ GetBiometricNameCall
  \/ PerformBiometricLoginCall
  \/ PerformBiometricLoginStep

SpecGate == InitGate /\ [][NextGate]_vars

-----------------------------------------------------------------------------
(* The API client, one call at a time *)

\* No request, handler, startup check or alert is in flight.
Quiescent ==
  /\ Mounted
  /\ NoRequestInFlight
  /\ ui.pc = "idle"
  /\ bio.pc = "idle"
  /\ enrollAlert = NullObject

\* The instance carries exactly the stored base URL, key and token.
ReflectsStorage(instance) ==
  /\ instance \notin {NullObject, ReferenceError}
  /\ instance.baseURL = AsyncStorage["API_BASE_URL"]
  /\ instance.headers.XApiKey = AsyncStorage["API_KEY"]
  /\ instance.headers.Authorization =
       IF AsyncStorage["SESSION_TOKEN"] = Null THEN Null
       ELSE <<"Bearer ">> \o AsyncStorage["SESSION_TOKEN"]

\* C1: once no other call is in flight, the instance getApi() returns has a
\* baseURL, X-API-Key and Authorization equal to the latest stored values.
C1_InstanceReflectsStorage ==
  Quiescent => ReflectsStorage(GetApi(Module).returns)

\* C2: every instance getApi() builds carries Content-Type application/json,
\* X-API-Key exactly when the rebuild found an API key stored, and
\* Authorization "Bearer <token>" exactly when it found a session token
\* stored; the two headers are independent, so both are present when both
\* are stored.
C2_BuiltHeaders ==
  [][\A t \in Tasks :
       (req[t].pc = "getApi21" /\ req'[t].pc = "sent") =>
         LET headers == apiInstance'.headers
             apiKey == req[t].apiKey
             sessionToken == AsyncStorage["SESSION_TOKEN"]
         IN  /\ headers.ContentType = "application/json"
             /\ headers.XApiKey = apiKey
             /\ (headers.XApiKey # Null) <=> (apiKey # Null)
             /\ (headers.Authorization # Null) <=> (sessionToken # Null)
             /\ sessionToken # Null =>
                  headers.Authorization = <<"Bearer ">> \o sessionToken]_vars

\* A request has just gone out on an instance built while both a key and a
\* token were stored.
C2_BothHeadersBuilt ==
  \E t \in Tasks :
    /\ req[t].pc = "sent"
    /\ apiInstance # NullObject
    /\ apiInstance.headers.XApiKey = AsyncStorage["API_KEY"]
    /\ apiInstance.headers.XApiKey # Null
    /\ apiInstance.headers.Authorization # Null

\* C3: when a response has status 401, API_KEY and SESSION_TOKEN are both
\* removed and the cached instance is discarded, so that the next getApi()
\* builds an instance with neither X-API-Key nor Authorization; a response
\* with any other status, or an error without a response, leaves the stores
\* and the cached instance as they were.
C3_UnauthorizedClearsCredentials ==
  /\ [](\A t \in Tasks :
          (req[t].pc = "settled" /\ req[t].status = "401") =>
            /\ AsyncStorage["API_KEY"] = Null
            /\ AsyncStorage["SESSION_TOKEN"] = Null
            /\ apiInstance = NullObject
            /\ GetApi(Module).returns # ReferenceError
            /\ GetApi(Module).returns.headers.XApiKey = Null
            /\ GetApi(Module).returns.headers.Authorization = Null)
  /\ [][\A t \in Tasks :
          (req[t].pc = "sent" /\ req'[t].pc = "settled") =>
            /\ req'[t].status \in Statuses \ {"401"}
            /\ UNCHANGED << AsyncStorage, SecureStore, apiInstance,
                            currentSessionToken >>]_vars

\* A logged-in user's request has come back 401 and is settled.
C3_UnauthorizedSettled ==
  \E t \in Tasks :
    /\ req[t].pc = "settled"
    /\ req[t].status = "401"
    /\ isAuthenticated /\ currentUser # Null

\* C4: a request whose response is an error (401 included, and an error
\* without response) is always rejected to its caller; only a successful
\* response resolves, and while the interceptor is still clearing the
\* credentials the request has not been resolved.
C4_ErrorsReject ==
  \A t \in Tasks :
    /\ req[t].pc = "settled" =>
         /\ req[t].status \in Statuses \cup {"ReferenceError"}
         /\ req[t].status # "200" => req[t].result = "rejected"
         /\ req[t].status = "200" => req[t].result = "resolved"
    /\ req[t].pc \in {"interceptor50", "interceptor51"} =>
         req[t].status = "401" /\ req[t].result = "none"

\* A 401 has gone through the interceptor and reached the caller as a
\* rejection.
C4_UnauthorizedRejected ==
  \E t \in Tasks :
    /\ req[t].pc = "settled"
    /\ req[t].status = "401"
    /\ req[t].result = "rejected"
    /\ apiInstance = NullObject

\* C5: resetApiInstance() is idempotent: from any state, calling it twice and
\* then getApi() gives the same module state (apiInstance,
\* currentSessionToken), hence the same returned instance, as calling it once
\* and then getApi().
C5_ResetIdempotent ==
  /\ Reset(Reset(Module)) = Reset(Module)
  /\ GetApi(Reset(Reset(Module))) = GetApi(Reset(Module))

\* A state in which the reset matters: the cached instance is out of date and
\* getApi() would return it as it is, while after a reset it builds anew.
C5_ResetMatters ==
  /\ apiInstance # NullObject
  /\ ~ReflectsStorage(apiInstance)
  /\ GetApi(Module).returns = apiInstance
  /\ ReflectsStorage(GetApi(Reset(Module)).returns)

-----------------------------------------------------------------------------
(* Login, logout and the startup check *)

LoginHandlers == {"handleLogin", "handleSignup", "handleBiometricLogin"}

\* The step in which a login handler, or the startup biometric login,
\* declares the user authenticated.
HandlerLogsIn ==
  ui.handler \in LoginHandlers /\ ui.pc # "done" /\ ui'.pc = "done"
    /\ ui'.outcome = "Success"
StartupLogsIn == ca.pc = "ca102" /\ ca'.pc = "done"

\* In the calls a flow made, the flags are set once, as the last call, after
\* a reset of the client that itself follows the write of the token.
WriteResetAuthenticate(calls) ==
  \E i, j \in 1..Len(calls) :
    /\ i < j /\ j < Len(calls)
    /\ calls[i] = "setItem(SESSION_TOKEN)"
    /\ calls[j] = "resetApiInstance"
    /\ calls[Len(calls)] = "setIsAuthenticated(true)"
    /\ \A n \in 1..j : calls[n] # "setIsAuthenticated(true)"

\* C6: on the success of a manual login, a signup or a biometric replay (from
\* the login screen or at startup) the token is written, then the client is
\* reset, then the user and the flags are set; and at the moment the app
\* becomes Authenticated with a user there is no cached instance, so none
\* with headers built from the old or an absent token.
C6_LoginOrder ==
  [][/\ HandlerLogsIn =>
          /\ WriteResetAuthenticate(ui'.calls)
          /\ isAuthenticated' /\ ~needsAuth'
          /\ currentUser' = ui.data.user
          /\ apiInstance' = NullObject /\ currentSessionToken' = Null
     /\ StartupLogsIn =>
          /\ WriteResetAuthenticate(ca'.calls)
          /\ isAuthenticated' /\ ~needsAuth'
          /\ currentUser' = ca.data.user
          /\ apiInstance' = NullObject /\ currentSessionToken' = Null
     /\ (currentUser' # Null /\ currentUser' # currentUser) =>
          isAuthenticated' /\ apiInstance' = NullObject]_vars

\* A manual login has just succeeded while a request sent on an earlier
\* instance is still out.
C6_LoggedInDuringRequest ==
  /\ ui.handler = "handleLogin" /\ ui.pc = "done" /\ ui.outcome = "Success"
  /\ \E t \in Tasks : req[t].pc = "sent"
  /\ isAuthenticated /\ currentUser = ui.data.user
  /\ AsyncStorage["SESSION_TOKEN"] = ui.data.session_token
  /\ apiInstance = NullObject

\* C7: handleLogout always ends with SESSION_TOKEN absent, the cached
\* instance discarded and the app in NeedsAuth with no current user, whether
\* the server's logout call succeeded, returned an error status, or threw (a
\* network error or the timeout); a running logout can always take its next
\* step.
C7_LogoutClearsSession ==
  /\ [][(ui.handler = "handleLogout" /\ ui.pc # "done" /\ ui'.pc = "done") =>
          /\ AsyncStorage'["SESSION_TOKEN"] = Null
          /\ apiInstance' = NullObject /\ currentSessionToken' = Null
          /\ ~isAuthenticated' /\ needsAuth'
          /\ currentUser' = Null
          /\ ui'.outcome \in LogoutOutcomes \cup {"none"}]_vars
  /\ [](ui.handler = "handleLogout" /\ ui.pc # "done" =>
          ENABLED (LogoutBaseUrl \/ LogoutToken \/ LogoutResponse \/ LogoutDone))

\* A logout whose server call threw has finished.
C7_LogoutAfterNetworkError ==
  /\ ui.handler = "handleLogout" /\ ui.pc = "done" /\ ui.outcome = "throw"
  /\ AsyncStorage["SESSION_TOKEN"] = Null
  /\ needsAuth /\ ~isAuthenticated /\ currentUser = Null

\* checkAuthentication has returned and the app has not rendered yet.
CaFinished == ca.pc = "done" /\ ~checkingAuth

\* The run read and wrote nothing of the stores.
CaStoresUntouched ==
  /\ AsyncStorage = ca.atStart.AsyncStorage
  /\ SecureStore = ca.atStart.SecureStore

\* C8: in checkAuthentication, when a session token is stored and GET
\* /api/auth/me returns a non-OK status (401 included), or the request fails
\* or times out, then at the end of the run SESSION_TOKEN has been removed
\* and the app is in NeedsAuth.
C8_InvalidSessionRemoved ==
  /\ ca.pc = "done" => ~checkingAuth
  /\ (ca.pc = "done" /\ ca.me \in {"notOk", "throw", "badJson"}) =>
       /\ ca.sessionToken # Null
       /\ AsyncStorage["SESSION_TOKEN"] = Null
       /\ needsAuth /\ ~isAuthenticated
       /\ currentUser = Null

\* The run found a stored token and the request to validate it failed.
C8_ValidationFailed ==
  /\ CaFinished /\ ca.me = "throw"
  /\ ca.atStart.AsyncStorage["SESSION_TOKEN"] # Null
  /\ AsyncStorage["SESSION_TOKEN"] = Null

\* C9: when the base URL is unset, or the status probe fails or times out,
\* checkAuthentication ends in NeedsAuth, having made no later step: the only
\* call is the probe (no biometric check or prompt, no login call, no read
\* of SESSION_TOKEN, no /api/auth/me), and the stored token, flag and
\* credentials are as they were.
C9_UnreachableServer ==
  /\ (ca.pc = "done" /\ ca.baseURL = Null) => ca.probe = "failed"
  /\ (ca.pc = "done" /\ ca.probe = "failed") =>
       /\ ~checkingAuth
       /\ needsAuth /\ ~isAuthenticated /\ currentUser = Null
       /\ ca.calls = <<"status">>
       /\ ca.prompts = 0 /\ bio.pc = "idle"
       /\ CaStoresUntouched

\* A run without a base URL has ended while a session token and saved
\* credentials are stored.
C9_NoBaseUrlWithSession ==
  /\ CaFinished /\ ca.baseURL = Null /\ ca.probe = "failed"
  /\ AsyncStorage["SESSION_TOKEN"] # Null
  /\ SecureStore # Null

\* C10: when the server reports auth_mode "none", checkAuthentication ends
\* Authenticated with no user and without any credential check: the only
\* call is the probe (biometric state not consulted, no prompt, SESSION_TOKEN
\* neither read nor removed, no login and no /api/auth/me request).
C10_AuthModeNone ==
  (ca.pc = "done" /\ ca.probe = "none") =>
    /\ ~checkingAuth
    /\ isAuthenticated /\ ~needsAuth
    /\ currentUser = Null
    /\ ca.calls = <<"status">>
    /\ ca.prompts = 0 /\ bio.pc = "idle"
    /\ CaStoresUntouched

\* A run has ended in mode "none" although a session token is stored and
\* biometric login is enabled.
C10_ModeNoneWithCredentials ==
  /\ CaFinished /\ ca.probe = "none"
  /\ AsyncStorage["SESSION_TOKEN"] # Null
  /\ AsyncStorage["BIOMETRIC_ENABLED"] = BiometricTrue
  /\ SecureStore # Null

\* C11: with auth mode "full", a stored session token and no successful
\* biometric replay, when GET /api/auth/me with that token answers 200 the
\* run ends Authenticated with the user that /api/auth/me returned, and the
\* stored token (like everything else stored) is left in place.
C11_ValidSession ==
  (ca.pc = "done" /\ ca.me = "ok") =>
    /\ ca.probe \in {"full", "unknown"}
    /\ ca.login # "ok"
    /\ ~checkingAuth
    /\ isAuthenticated /\ ~needsAuth
    /\ currentUser = ca.userData
    /\ ca.sessionToken # Null
    /\ AsyncStorage["SESSION_TOKEN"] = ca.sessionToken
    /\ CaStoresUntouched

\* A run in mode "full" has validated the stored token and got a user.
C11_SessionValidated ==
  /\ CaFinished /\ ca.probe = "full" /\ ca.me = "ok"
  /\ ca.userData \in Users
  /\ currentUser = ca.userData
  /\ AsyncStorage["SESSION_TOKEN"] \in Tokens

\* The run made call `name`.
CaCalled(name) == \E i \in 1..Len(ca.calls) : ca.calls[i] = name

\* What the startup biometric login leaves, the next getApi() apart.
BiometricStartupLogin ==
  /\ ~checkingAuth
  /\ ca.credentials # NullObject
  /\ AsyncStorage["SESSION_TOKEN"] = ca.data.session_token
  /\ apiInstance = NullObject /\ currentSessionToken = Null
  /\ isAuthenticated /\ ~needsAuth
  /\ currentUser = ca.data.user
  /\ ~CaCalled("getItem(SESSION_TOKEN)") /\ ~CaCalled("me")

\* C12: when biometric login is enabled, credentials are saved, the prompt
\* succeeds and POST /api/auth/login answers 200, checkAuthentication stores
\* the returned token, resets the API instance and ends Authenticated with
\* the returned user without validating any stored token, and the next
\* getApi() returns an instance whose Authorization header is Bearer
\* followed by the new token.
C12_BiometricStartup ==
  (ca.pc = "done" /\ ca.login = "ok") =>
    /\ BiometricStartupLogin
    /\ LET next == GetApi(Module).returns
       IN  /\ next # ReferenceError
           /\ next.headers.Authorization = Bearer(ca.data.session_token)

\* C13: an exception at a step of checkAuthentication that no inner step
\* handles (a status body without fields, a failing read of the stored
\* token) ends the run in NeedsAuth, never Authenticated, with the check
\* over: checkAuthentication returns, it does not reject.
C13_UnhandledRequiresLogin ==
  /\ ca.caught = "outer" => ca.pc = "done"
  /\ (ca.pc = "done" /\ ca.caught = "outer") =>
       /\ ~checkingAuth
       /\ needsAuth /\ ~isAuthenticated
       /\ AuthStackShown
       /\ CaStoresUntouched

\* The read of a stored, valid token threw, the server being reachable.
C13_TokenReadThrew ==
  /\ CaFinished /\ ca.caught = "outer"
  /\ ca.probe = "full"
  /\ AsyncStorage["SESSION_TOKEN"] \in Tokens

\* The flag is 'true' and a pair that parses is saved.
EnabledWithPair ==
  /\ AsyncStorage["BIOMETRIC_ENABLED"] = BiometricTrue
  /\ GetSavedCredentials(TRUE) # NullObject

\* C14: performBiometricLogin shows the platform prompt only when
\* BIOMETRIC_ENABLED is 'true' and a credential pair is saved; in every
\* other case it returns {success: false, credentials: null} and has shown
\* no prompt.
C14_PromptOnlyWhenEnabled ==
  bio.op = "performBiometricLogin" =>
    /\ bio.prompts \in {0, 1}
    /\ bio.prompts > 0 => EnabledWithPair
    /\ (bio.pc = "returned" /\ ~EnabledWithPair) =>
         bio.result = BiometricFailure /\ bio.prompts = 0

\* A call has returned without a prompt: a pair is saved, the flag is not
\* 'true'.
C14_DisabledWithPair ==
  /\ bio.op = "performBiometricLogin"
  /\ bio.pc = "returned" /\ bio.prompts = 0
  /\ bio.result = BiometricFailure
  /\ GetSavedCredentials(TRUE) # NullObject
  /\ AsyncStorage["BIOMETRIC_ENABLED"] # BiometricTrue

\* C15: performBiometricLogin returns success: true only when the prompt was
\* shown in that call and succeeded, and then the credentials are exactly
\* the pair stored in the secure store; when the prompt is cancelled, fails
\* or throws, the result is {success: false, credentials: null}.
C15_SuccessNeedsPrompt ==
  (bio.op = "performBiometricLogin" /\ bio.pc = "returned") =>
    /\ bio.result.success =>
         /\ bio.prompts = 1 /\ bio.outcome = "success"
         /\ JsonWellFormed(SecureStore)
         /\ bio.result.credentials = JsonParse(SecureStore)
         /\ bio.result.credentials \in CredentialPairs
    /\ bio.outcome \in {"cancel", "error"} =>
         bio.prompts = 1 /\ bio.result = BiometricFailure
    /\ ~bio.result.success => bio.result.credentials = NullObject

\* The prompt was shown over the second saved pair and cancelled.
C15_PromptCancelled ==
  /\ bio.op = "performBiometricLogin"
  /\ bio.pc = "returned" /\ bio.prompts = 1
  /\ bio.outcome = "cancel"
  /\ EnabledWithPair
  /\ GetSavedCredentials(TRUE) \notin CredentialInputs
  /\ bio.result = BiometricFailure

\* C16: once biometric login has been disabled, by deleteCredentials() or by
\* setBiometricEnabled(false), whatever was stored before, a
\* getSavedCredentials() that follows returns null.
C16_DisableClearsCredentials ==
  (bio.pc = "returned"
     /\ bio.op \in {"deleteCredentials", "setBiometricEnabled(false)"}) =>
    GetSavedCredentials(TRUE) = NullObject

\* C17: in every reachable state a credential pair is in the secure store
\* only while BIOMETRIC_ENABLED is 'true': through enrollment, through
\* disabling, and when a storage call of either flow fails.
C17_NoOrphanedCredentials ==
  SecureStore # Null => AsyncStorage["BIOMETRIC_ENABLED"] = BiometricTrue

\* C18: when the server rejects a login made with the saved credentials
\* (a non-OK answer to POST /api/auth/login), at startup or from the
\* login screen, the saved pair has been deleted when the run or the
\* handler ends, so that getSavedCredentials() returns null from then on.
C18_RejectedPairDeleted ==
  /\ (ca.pc = "done" /\ ca.login = "notOk") =>
       GetSavedCredentials(TRUE) = NullObject
  /\ (ui.handler = "handleBiometricLogin" /\ ui.pc = "done"
        /\ ui.outcome = "Failed") =>
       GetSavedCredentials(TRUE) = NullObject

\* C19: after a request made through the API client while Authenticated has
\* been answered 401, the stored credentials are cleared and the user is
\* made to log in again: once the rejection has reached its caller and
\* nothing is in flight any more, the app is not Authenticated as a user
\* with no session token stored.
C19_UnauthorizedForcesLogin ==
  /\ \A t \in Tasks :
       (req[t].pc = "settled" /\ req[t].status = "401") =>
         AsyncStorage["API_KEY"] = Null /\ AsyncStorage["SESSION_TOKEN"] = Null
  /\ (Quiescent /\ isAuthenticated /\ currentUser # Null) =>
       AsyncStorage["SESSION_TOKEN"] # Null

\* The operations that answer with a boolean.
BooleanOperations ==
  { "isBiometricSupported", "isBiometricEnrolled", "isBiometricEnabled",
    "setBiometricEnabled(true)", "setBiometricEnabled(false)",
    "saveCredentials", "deleteCredentials", "authenticateWithBiometrics" }

\* C20: no operation of biometricAuth.js throws to its caller; when a
\* platform or storage call made for it throws, the boolean operations
\* return false, getSavedCredentials returns null (as it does for a stored
\* text that does not parse), and performBiometricLogin returns
\* {success: false, credentials: null}.
C20_GateFailsClosed ==
  bio.pc = "returned" =>
    /\ ~bio.threw
    /\ (bio.failed /\ bio.op \in BooleanOperations) => bio.returns = FALSE
    /\ (bio.op = "getSavedCredentials"
          /\ (bio.failed \/ SecureStore = Unparsable)) =>
         bio.returns = NullObject
    /\ (bio.failed /\ bio.op = "performBiometricLogin") =>
         bio.result = BiometricFailure

\* The types that occur in the list, whatever their order.
TypesIn(types) ==
  IF types.missing THEN {} ELSE { types.list[i] : i \in 1..Len(types.list) }

\* C21: getBiometricName(types) gives 'Face ID' whenever facial recognition
\* is among the types, else 'Touch ID' whenever fingerprint is, else 'Iris'
\* whenever iris is, else 'Biometric' (also for an empty or missing list);
\* the order of the types in the list does not matter.
C21_NamePrecedence ==
  (bio.pc = "returned" /\ bio.op = "getBiometricName") =>
    LET available == TypesIn(bio.arg)
    IN  /\ "FACIAL_RECOGNITION" \in available => bio.returns = "Face ID"
        /\ ("FACIAL_RECOGNITION" \notin available
              /\ "FINGERPRINT" \in available) => bio.returns = "Touch ID"
        /\ (available = {"IRIS"}) => bio.returns = "Iris"
        /\ (available = {}) => bio.returns = "Biometric"
        /\ \A other \in TypesInputs :
             TypesIn(other) = available =>
               GetBiometricName(other) = bio.returns

\* A list that names the fingerprint reader before the face camera.
C21_FingerprintListedFirst ==
  /\ bio.pc = "returned" /\ bio.op = "getBiometricName"
  /\ ~bio.arg.missing /\ Len(bio.arg.list) >= 2
  /\ bio.arg.list[1] = "FINGERPRINT"
  /\ Includes(bio.arg.list, "FACIAL_RECOGNITION")
  /\ bio.returns = "Face ID"

\* The step is one of checkAuthentication, or the call of handleLoginSuccess,
\* or the end of handleLogout, or the start of the app.
OrchestratorStep ==
  \/ ca.pc \notin {"done", "rendered"} /\ ca'.pc # ca.pc
  \/ ui.pc # "done" /\ ui'.pc = "done" /\ ui'.outcome = "Success"
  \/ ui.handler = "handleLogout" /\ ui.pc = "lo193" /\ ui'.pc = "done"
  \/ checkingAuth' /\ ca' = StartCa

C23_StartupTerminates ==
  /\ checkingAuth ~> (~checkingAuth /\ ca.pc = "done"
                        /\ isAuthenticated # needsAuth)
  /\ [][(~checkingAuth /\ checkingAuth') => ca' = StartCa]_vars
  /\ [](~checkingAuth => ca.pc \in {"done", "rendered"})

\* The validation of the stored token timed out and the run is over.
C23_EndedAfterTimeout ==
  /\ CaFinished /\ ca.me = "throw"
  /\ needsAuth /\ ~isAuthenticated

\* C24: every network call of the auth flows is aborted with the error
\* 'Request timed out' when the server never answers, so that no handler is
\* left waiting for a call that never settles.
C24_NoCallPendingForEver ==
  /\ FetchWithTimeout(Silent).message = "Request timed out"
  /\ ui.pc # "pending"

\* The rebuild of task t completes in this step after resetApiInstance() has
\* been called while it was suspended (the reset is what leaves the
\* recorded token null under a rebuild in progress).
CompletesAfterReset(t) ==
  /\ req[t].pc = "getApi21" /\ req'[t].pc = "sent"
  /\ currentSessionToken = Null

\* getApi() of task t returns the cached instance in this step.
ReturnsCached(t) == req[t].pc = "getApi10" /\ req'[t].pc = "sent"

\* C25: when a credential or URL change followed by resetApiInstance()
\* happens while a rebuild is suspended at one of its reads, the rebuild
\* does not install a stale instance when it completes, and a getApi()
\* started afterwards returns an instance whose base URL and auth headers
\* are the stored ones, so that no request goes out with outdated headers.
C25_NoStaleInstanceAfterReset ==
  [][\A t \in Tasks :
       /\ CompletesAfterReset(t) => ReflectsStorage(apiInstance')
       /\ ReturnsCached(t) => ReflectsStorage(apiInstance)]_vars

\* The triple an instance is bound to.
BoundTriple(instance) ==
  [ baseURL |-> instance.baseURL,
    apiKey |-> instance.headers.XApiKey,
    sessionToken |->
      IF instance.headers.Authorization = Null THEN Null
      ELSE SubSeq(instance.headers.Authorization, 2,
                  Len(instance.headers.Authorization)) ]

\* C26: every instance getApi() builds is bound to a base URL, API key and
\* session token that were the three stored values at one single moment of
\* the rebuild: writes between the three awaited reads never give an
\* instance that combines a new value with stale ones.
C26_TripleFromOneMoment ==
  [][\A t \in Tasks :
       (req[t].pc = "getApi21" /\ req'[t].pc = "sent") =>
         BoundTriple(apiInstance') \in stored[t]]_vars

\* The module state a call of getApi() with outcome r leaves behind.
After(r) ==
  [apiInstance |-> r.apiInstance, currentSessionToken |-> r.currentSessionToken]

\* C27: getApi() rebuilds only when nothing is cached or the token it read
\* differs from the recorded one, and a rebuild records the token it read:
\* of two calls in a row with storage unchanged and no reset in between,
\* neither throws and the second returns the cached instance without
\* rebuilding.
C27_SecondCallReturnsCached ==
  Quiescent =>
    LET sessionToken == AsyncStorage["SESSION_TOKEN"]
        first == GetApi(Module)
        second == GetApi(After(first))
    IN  /\ first.returns # ReferenceError
        /\ second.returns # ReferenceError
        /\ NeedsRebuild(Module.apiInstance, Module.currentSessionToken,
                        sessionToken)
             => first.currentSessionToken = sessionToken
        /\ ~NeedsRebuild(first.apiInstance, first.currentSessionToken,
                         sessionToken)

\* A step sets, replaces or removes the stored session token.
TokenChanges == AsyncStorage'["SESSION_TOKEN"] # AsyncStorage["SESSION_TOKEN"]

\* getApi(), started now, rebuilds and returns an instance whose
\* Authorization header is the one of the stored token.
RebuildsForStoredToken ==
  LET sessionToken == AsyncStorage["SESSION_TOKEN"]
      returns == GetApi(Module).returns
  IN  /\ NeedsRebuild(apiInstance, currentSessionToken, sessionToken)
      /\ returns # ReferenceError
      /\ returns.headers.Authorization =
           IF sessionToken = Null THEN Null ELSE <<"Bearer ">> \o sessionToken

\* C28: when the stored session token is set, replaced or removed and
\* resetApiInstance() has not been called since, the next getApi() finds
\* the mismatch with the recorded token and returns a rebuilt instance whose
\* Authorization header is that of the newly stored token, or absent when
\* the token was removed.
C28_TokenChangeDetected ==
  [][TokenChanges => RebuildsForStoredToken']_vars

\* The run tried the biometric login and it did not store a token: the
\* prompt was cancelled or failed, no pair was saved, or the login call
\* threw, timed out or was answered with a non-OK response.
StepThreeFailed ==
  /\ CaCalled("performBiometricLogin")
  /\ ~CaCalled("setItem(SESSION_TOKEN)")
  /\ ca.pc \notin {"ca89", "ca94"}

\* How the validation of the token stored at the start of the run ends.
EndsAsStoredTokenRun ==
  LET sessionToken == ca.atStart.AsyncStorage["SESSION_TOKEN"] IN
  /\ ~checkingAuth
  /\ SecureStore = ca.atStart.SecureStore
  /\ IF ca.caught = "outer"
     THEN /\ needsAuth /\ ~isAuthenticated
          /\ AsyncStorage = ca.atStart.AsyncStorage
     ELSE IF sessionToken = Null
     THEN /\ needsAuth /\ ~isAuthenticated
          /\ AsyncStorage = ca.atStart.AsyncStorage
          /\ ~CaCalled("me")
     ELSE IF ca.me = "ok"
     THEN /\ isAuthenticated /\ ~needsAuth
          /\ currentUser = ca.userData
          /\ AsyncStorage = ca.atStart.AsyncStorage
     ELSE /\ needsAuth /\ ~isAuthenticated
          /\ AsyncStorage =
               [ca.atStart.AsyncStorage EXCEPT !["SESSION_TOKEN"] = Null]

\* C29: when the biometric login of the startup fails for any reason,
\* checkAuthentication has set no auth state and shown no error, goes on to
\* read and validate the stored token, and ends with the flags and the
\* stored token of a run that did not try the biometric login.
C29_FailedBiometricFallsThrough ==
  /\ StepThreeFailed =>
       /\ CaCalled("getItem(SESSION_TOKEN)")
       /\ ui = IdleUi /\ enrollAlert = NullObject
       /\ ca.pc = "ca118" =>
            /\ checkingAuth /\ ~isAuthenticated /\ ~needsAuth
            /\ AsyncStorage = ca.atStart.AsyncStorage
            /\ SecureStore = ca.atStart.SecureStore
  /\ (ca.pc = "done" /\ CaCalled("getItem(SESSION_TOKEN)")) =>
       EndsAsStoredTokenRun

\* The login with the saved pair was refused or timed out, and the run has
\* ended with the stored token validated.
C29_LoginRefusedTokenValid ==
  /\ ca.pc = "done"
  /\ ca.login \in {"notOk", "throw"}
  /\ ca.me = "ok"
  /\ isAuthenticated

\* C30: whenever deleteCredentials() has returned true, no credential pair
\* is saved and BIOMETRIC_ENABLED is "false": it never reports success with
\* the flag still "true", also when the write of the flag fails after the
\* pair was deleted.
C30_DeleteReportsFlagCleared ==
  (bio.pc = "returned" /\ bio.op = "deleteCredentials" /\ bio.returns = TRUE) =>
    /\ SecureStore = Null
    /\ AsyncStorage["BIOMETRIC_ENABLED"] = BiometricFalse

\* C31: BIOMETRIC_ENABLED is "true" only while a credential pair is saved,
\* in every reachable state, those between the awaited steps of
\* deleteCredentials included; and the flag is set to "true" only after
\* saveCredentials returned true.
C31_FlagOnlyWithPair ==
  /\ AsyncStorage["BIOMETRIC_ENABLED"] = BiometricTrue => SecureStore # Null
  /\ (ui.handler = "enableBiometric" /\ ui.pc = "en134") => ui.saved

\* C32: when the server reports an auth mode other than "none" (a missing
\* or unlisted mode included), checkAuthentication ends authenticated only
\* if in this run the server answered OK to the login made with the saved
\* credentials or to GET /api/auth/me made with the stored token; every
\* other run ends with login required.
C32_AuthenticatedOnlyByServer ==
  (ca.pc = "done" /\ ca.probe \in {"full", "unknown"}) =>
    /\ ~checkingAuth
    /\ IF ca.login = "ok" \/ ca.me = "ok"
       THEN isAuthenticated /\ ~needsAuth
       ELSE needsAuth /\ ~isAuthenticated
    /\ ca.login = "ok" => ca.credentials = JsonParse(SecureStore)
    /\ ca.me = "ok" => ca.sessionToken = AsyncStorage["SESSION_TOKEN"]

\* A run with an unlisted auth mode has ended with login required after the
\* server refused the stored token.
C32_UnknownModeTokenRefused ==
  /\ ca.pc = "done" /\ ca.probe = "unknown"
  /\ ca.me = "notOk"
  /\ needsAuth /\ ~isAuthenticated

\* The request of task t went out before the session token now stored was
\* stored: it carries no Authorization header or that of an earlier token.
SentBeforeLogin(t) ==
  /\ AsyncStorage["SESSION_TOKEN"] # Null
  /\ req[t].authorization # Bearer(AsyncStorage["SESSION_TOKEN"])

\* C33: a 401 answer to a request that went out before a later successful
\* login neither removes the SESSION_TOKEN stored by that login nor drops
\* the instance built from it.
C33_Late401KeepsNewSession ==
  [][\A t \in Tasks :
       /\ (req[t].pc = "interceptor50" /\ req'[t].pc = "interceptor51"
             /\ SentBeforeLogin(t)) =>
            AsyncStorage'["SESSION_TOKEN"] = AsyncStorage["SESSION_TOKEN"]
       /\ (req[t].pc = "interceptor51" /\ req'[t].pc = "settled"
             /\ apiInstance # NullObject
             /\ apiInstance.headers.Authorization # req[t].authorization) =>
            apiInstance' = apiInstance]_vars

\* This step is one of handleLogout.
LogoutTakesStep == ui'.handler = "handleLogout" /\ ui' # ui

\* C34: handleLogout changes only SESSION_TOKEN, the cached API instance
\* with its recorded token, and the auth flags and user in memory: no step
\* of it changes API_KEY, API_BASE_URL, BIOMETRIC_ENABLED or the saved
\* credential pair.
C34_LogoutFrame ==
  [][LogoutTakesStep =>
       /\ \A key \in {"API_KEY", "API_BASE_URL", "BIOMETRIC_ENABLED"} :
            AsyncStorage'[key] = AsyncStorage[key]
       /\ SecureStore' = SecureStore
       /\ UNCHANGED << checkingAuth, req, ca, bio, enrollAlert >>]_vars

\* A logout has finished on a device with an API key, the biometric flag
\* and a saved pair.
C34_LoggedOutKeepingDevice ==
  /\ ui.handler = "handleLogout" /\ ui.pc = "done"
  /\ AsyncStorage["SESSION_TOKEN"] = Null
  /\ AsyncStorage["API_BASE_URL"] # Null
  /\ AsyncStorage["API_KEY"] # Null
  /\ AsyncStorage["BIOMETRIC_ENABLED"] = BiometricTrue
  /\ SecureStore # Null

\* The URL typed is empty or does not start with http:// or https://.
NotAServerUrl(serverUrl) ==
  LET typed == Trim(serverUrl) IN
    \/ typed = <<>>
    \/ ~(StartsWith(typed, HttpPrefix) \/ StartsWith(typed, HttpsPrefix))

\* getApi(), started now, returns an instance built on the stored URL.
BuiltOnStoredUrl ==
  LET returns == GetApi(Module).returns IN
    /\ returns # ReferenceError
    /\ returns.baseURL = AsyncStorage["API_BASE_URL"]

\* C35: handleConfigureServer validates before it commits.  For an empty
\* URL or one without http:// or https:// in front, API_BASE_URL and the
\* cached instance stay as they are; otherwise what it stores is the typed
\* URL trimmed and without its trailing slashes, resetApiInstance() is
\* called only after the write, and the next getApi() is built on the new
\* URL.
C35_ValidateThenCommit ==
  [][/\ \A serverUrl \in LandingUrlInputs :
          HandleConfigureServer(serverUrl) =>
            /\ UNCHANGED apiVars
            /\ NotAServerUrl(serverUrl) => UNCHANGED AsyncStorage
            /\ AsyncStorage' # AsyncStorage =>
                 AsyncStorage' =
                   [AsyncStorage EXCEPT
                      !["API_BASE_URL"] = StripTrailingSlashes(Trim(serverUrl))]
            /\ ui'.pc = "cfg36" =>
                 LET cleanUrl == AsyncStorage'["API_BASE_URL"] IN
                   /\ cleanUrl = StripTrailingSlashes(Trim(serverUrl))
                   /\ cleanUrl[1] # " " /\ cleanUrl[Len(cleanUrl)] \notin {" ", "/"}
     /\ ConfigureServerReset =>
          /\ apiInstance' = NullObject /\ currentSessionToken' = Null
          /\ UNCHANGED AsyncStorage
          /\ BuiltOnStoredUrl']_vars

\* C36: saving and loading round-trips.  After saveCredentials(u, p) has
\* returned true, getSavedCredentials() returns exactly {username: u,
\* password: p}, and goes on doing so until the next saveCredentials or
\* deleteCredentials; a later successful save replaces the earlier pair.
C36_SaveLoadRoundTrip ==
  [][/\ (bio'.pc = "returned" /\ bio'.op = "saveCredentials"
           /\ bio'.returns = TRUE) =>
          GetSavedCredentials(TRUE)' = bio'.credentials
     /\ bio'.op \notin {"saveCredentials", "deleteCredentials"} =>
          GetSavedCredentials(TRUE)' = GetSavedCredentials(TRUE)
     /\ (bio'.pc = "returned" /\ bio'.op = "getSavedCredentials"
           /\ ~bio'.failed) =>
          bio'.returns = GetSavedCredentials(TRUE)]_vars

\* The pair whose password has a quote and a backslash in it has been
\* saved, escaped in the stored text, and is what loading returns.
C36_EscapedPairLoaded ==
  /\ bio.pc = "returned" /\ bio.op = "saveCredentials"
  /\ bio.returns = TRUE
  /\ bio.credentials.username = <<"bob">>
  /\ GetSavedCredentials(TRUE) = bio.credentials
  /\ Len(SecureStore) > Len(bio.credentials.password) + 7

=============================================================================
